---- MODULE Spec2Model ----
(***************************************************************************)
(* A model of @collagejs/importmap: the validation outcome                 *)
(* (ValidationResultImpl), the validator (validate) and the resolver       *)
(* (ResolverImpl).                                                         *)
(*                                                                         *)
(* A JavaScript string is a sequence of UTF-16 code units (naturals).      *)
(* A JavaScript value is a record [t, s, e, h]: t its kind, s its string   *)
(* content, e its own enumerable entries in enumeration order, h the       *)
(* behaviour of its Proxy handler (when it is a Proxy).                    *)
(***************************************************************************)
EXTENDS Integers, Sequences, FiniteSets, TLC

VARIABLES
    vr,         \* ValidationResultImpl: [valid, errors] (#valid, #errors)
    vrFlag,     \* the argument its constructor was called with
    vrLog,      \* history: the messages addError was called with, in order
    vrHeld,     \* the array the caller last read from the errors getter (<<>>: none)
    vrWrites,   \* how many times the caller has modified an array it read
    vrOp,       \* the last operation made on the validation outcome
    input,      \* the value passed to resolver() / validate()
    phase,      \* "start", "validated", "built" (constructor returned), "threw"
    rsv,        \* ResolverImpl: [im, validationResult, sortedImports, sortedScopes]
    vres,       \* outcome of the last direct validate(input) call
    call,       \* the resolve call whose value the caller holds: [made, spec, imp, out]
    peer        \* a second resolver of the same program: [input, phase, rsv, call]

vars == <<vr, vrFlag, vrLog, vrHeld, vrWrites, vrOp, input, phase, rsv, vres, call, peer>>
vrVars == <<vr, vrFlag, vrLog, vrHeld, vrWrites, vrOp>>
rsVars == <<input, phase, rsv, vres, call>>

-----------------------------------------------------------------------------
(* Bounds of the model *)

MaxErrors == 3      \* addError calls on one validation outcome
MaxWrites == 2      \* modifications the caller makes to arrays it has read
MaxEntries == 2     \* entries of the imports of a generated import map
MaxScopes == 2      \* scopes of a generated import map

-----------------------------------------------------------------------------
(* Strings: sequences of UTF-16 code units *)

Lowercase == <<"a", "b", "c", "d", "e", "f", "g", "h", "i", "j", "k", "l", "m",
               "n", "o", "p", "q", "r", "s", "t", "u", "v", "w", "x", "y", "z">>
Uppercase == <<"A", "B", "C", "D", "E", "F", "G", "H", "I", "J", "K", "L", "M",
               "N", "O", "P", "Q", "R", "S", "T", "U", "V", "W", "X", "Y", "Z">>
Digits == <<"0", "1", "2", "3", "4", "5", "6", "7", "8", "9">>
IndexIn(c, t) == CHOOSE i \in 1..Len(t) : t[i] = c
\* the code unit of an ASCII character
Ord(c) ==
    CASE c = " " -> 32 [] c = "+" -> 43 [] c = "-" -> 45 [] c = "." -> 46
      [] c = "/" -> 47 [] c = ":" -> 58 [] c = "=" -> 61 [] c = "?" -> 63
      [] c = "@" -> 64 [] c = "#" -> 35
      [] \E i \in 1..Len(Digits) : Digits[i] = c -> 47 + IndexIn(c, Digits)
      [] \E i \in 1..Len(Uppercase) : Uppercase[i] = c -> 64 + IndexIn(c, Uppercase)
      [] \E i \in 1..Len(Lowercase) : Lowercase[i] = c -> 96 + IndexIn(c, Lowercase)

RECURSIVE Str(_)
Str(cs) == IF cs = <<>> THEN <<>> ELSE <<Ord(Head(cs))>> \o Str(Tail(cs))

\* String.prototype.startsWith / endsWith / slice(n) / includes
StartsWith(s, p) == Len(p) <= Len(s) /\ SubSeq(s, 1, Len(p)) = p
EndsWith(s, p) == Len(p) <= Len(s) /\ SubSeq(s, Len(s) - Len(p) + 1, Len(s)) = p
Slice(s, n) == SubSeq(s, n + 1, Len(s))
Includes(s, p) == \E i \in 1..(Len(s) - Len(p) + 1) : SubSeq(s, i, i + Len(p) - 1) = p

-----------------------------------------------------------------------------
(* ValidationResultImpl *)

\* constructor(valid = true)
VRNew(valid) == [valid |-> valid, errors |-> <<>>]

\* addError(error)
VRAddErrorDropsDuplicate(r, e) ==
    [valid |-> FALSE,
     errors |-> IF \E i \in 1..Len(r.errors) : r.errors[i] = e
                THEN r.errors ELSE Append(r.errors, e)]
VRAddErrorKeepsFlag(r, e) == [valid |-> r.valid, errors |-> Append(r.errors, e)]
VRAddError(r, e) == [valid |-> FALSE, errors |-> Append(r.errors, e)]

\* get valid()
VRValid(r) == r.valid

\* get errors(): an array handed to the caller is either a new array with its
\* own items, or (alias) the private #errors array itself
VRErrorsShared(r) == [alias |-> TRUE, items |-> r.errors]
VRErrors(r) == [alias |-> FALSE, items |-> r.errors]

\* what the caller reads in an array it holds
Items(h) == IF h.alias THEN vr.errors ELSE h.items

ErrStrings == {Str(<<>>), Str(<<"e">>)}
Intruder == Str(<<"x">>)

VRInit ==
    /\ vrFlag \in BOOLEAN
    /\ vr = VRNew(vrFlag)
    /\ vrLog = <<>>
    /\ vrHeld = <<>>
    /\ vrWrites = 0
    /\ vrOp = "new"

\* result.addError(e)
VRAdd ==
    /\ Len(vrLog) < MaxErrors
    /\ \E e \in ErrStrings :
        /\ vr' = VRAddError(vr, e)
        /\ vrLog' = Append(vrLog, e)
    /\ vrOp' = "addError"
    /\ UNCHANGED <<vrFlag, vrHeld, vrWrites>>

\* const errorsRef = result.errors
VRRead ==
    /\ vrHeld' = <<VRErrors(vr)>>
    /\ vrOp' = "errors"
    /\ UNCHANGED <<vr, vrFlag, vrLog, vrWrites>>

\* the caller modifies the array it was handed: errorsRef.push(..) or errorsRef.pop()
PushTo(h, e) == [h EXCEPT !.items = Append(Items(h), e)]
PopFrom(h) == [h EXCEPT !.items = SubSeq(Items(h), 1, Len(Items(h)) - 1)]

VRCallerWrites ==
    /\ vrWrites < MaxWrites
    /\ Len(vrHeld) = 1
    /\ \E h2 \in {PushTo(vrHeld[1], Intruder)} \cup
                 (IF Len(Items(vrHeld[1])) > 0 THEN {PopFrom(vrHeld[1])} ELSE {}) :
            /\ vrHeld' = <<h2>>
            /\ vr' = IF vrHeld[1].alias THEN [vr EXCEPT !.errors = h2.items] ELSE vr
    /\ vrWrites' = vrWrites + 1
    /\ vrOp' = "callerWrite"
    /\ UNCHANGED <<vrFlag, vrLog>>

-----------------------------------------------------------------------------
(* Character classes and small string helpers *)

IsUpper(c) == c >= 65 /\ c <= 90
IsLower(c) == c >= 97 /\ c <= 122
IsAlpha(c) == IsUpper(c) \/ IsLower(c)
IsDigit(c) == c >= 48 /\ c <= 57
IsAlnum(c) == IsAlpha(c) \/ IsDigit(c)
ToLower(c) == IF IsUpper(c) THEN c + 32 ELSE c
RECURSIVE LowerStr(_)
LowerStr(s) == IF s = <<>> THEN <<>> ELSE <<ToLower(Head(s))>> \o LowerStr(Tail(s))

\* index of the first / last element of s in set cs, Len(s) + 1 / 0 when none
FirstIn(s, cs) ==
    IF \E i \in 1..Len(s) : s[i] \in cs
    THEN CHOOSE i \in 1..Len(s) : s[i] \in cs /\ \A j \in 1..(i - 1) : s[j] \notin cs
    ELSE Len(s) + 1
LastIn(s, cs) ==
    IF \E i \in 1..Len(s) : s[i] \in cs
    THEN CHOOSE i \in 1..Len(s) : s[i] \in cs /\ \A j \in (i + 1)..Len(s) : s[j] \notin cs
    ELSE 0
\* s without its leading elements in cs
DropLeading(s, cs) ==
    IF \E i \in 1..Len(s) : s[i] \notin cs
    THEN SubSeq(s, CHOOSE i \in 1..Len(s) : s[i] \notin cs /\ \A j \in 1..(i - 1) : s[j] \in cs,
                Len(s))
    ELSE <<>>
DropTrailing(s, cs) ==
    IF \E i \in 1..Len(s) : s[i] \notin cs
    THEN SubSeq(s, 1, CHOOSE i \in 1..Len(s) : s[i] \notin cs /\ \A j \in (i + 1)..Len(s) : s[j] \in cs)
    ELSE <<>>
RECURSIVE Without(_, _)
Without(s, cs) ==
    IF s = <<>> THEN <<>>
    ELSE IF Head(s) \in cs THEN Without(Tail(s), cs) ELSE <<Head(s)>> \o Without(Tail(s), cs)
\* value of a run of decimal digits, capped at cap + 1
RECURSIVE DecimalCapped(_, _, _)
DecimalCapped(s, acc, cap) ==
    IF s = <<>> THEN acc
    ELSE DecimalCapped(Tail(s), IF acc > cap THEN acc ELSE acc * 10 + (Head(s) - 48), cap)

-----------------------------------------------------------------------------
(* new URL(url) and new URL(url, base): does the platform's URL parser      *)
(* accept the string.  The parser is the WHATWG basic URL parser; this is  *)
(* its scheme / authority / host / port logic, where it can fail.  Hosts    *)
(* of the modelled inputs are ASCII or Cyrillic/Greek letters; IPv6        *)
(* literals, percent-escapes in hosts and non-decimal IPv4 numbers are not *)
(* modelled and count as failures.                                         *)

SlashC == Ord("/")
BackslashC == SlashC + 45
ColonC == Ord(":")
MaxPort == 2 ^ 16 - 1

SpecialSchemes == {Str(<<"f","t","p">>), Str(<<"f","i","l","e">>), Str(<<"h","t","t","p">>),
                   Str(<<"h","t","t","p","s">>), Str(<<"w","s">>), Str(<<"w","s","s">>)}
FileScheme == Str(<<"f","i","l","e">>)
HttpScheme == Str(<<"h","t","t","p">>)

\* leading/trailing C0 control or space stripped, tab and newlines removed
UrlInput(s) == Without(DropTrailing(DropLeading(s, 0..32), 0..32), {9, 10, 13})

\* length of the scheme (the index of its ':' minus 1), or -1 when s has none
SchemeLen(s) ==
    LET i == FirstIn(s, {ColonC})
    IN  IF /\ i >= 2 /\ i <= Len(s)
           /\ IsAlpha(s[1])
           /\ \A j \in 2..(i - 1) : IsAlnum(s[j]) \/ s[j] \in {43, 45, 46}
        THEN i - 1 ELSE -1

\* forbidden host code points, and the forbidden domain code points
ForbiddenHost == {0, 9, 10, 13, 32, 35, 47, 58, 60, 62, 63, 64, 91, 92, 93, 94, 124}
ForbiddenDomain == ForbiddenHost \cup (0..31) \cup {37, 127}

\* the labels of a host: its '.'-separated parts
RECURSIVE SplitOn(_, _)
SplitOn(s, c) ==
    LET i == FirstIn(s, {c})
    IN  IF i > Len(s) THEN <<s>> ELSE <<SubSeq(s, 1, i - 1)>> \o SplitOn(SubSeq(s, i + 1, Len(s)), c)

AllDigits(l) == l # <<>> /\ \A i \in 1..Len(l) : IsDigit(l[i])

\* host parser of a special scheme: a domain, or an IPv4 address when the last
\* label is a number
Labels(parts) ==
    IF Len(parts) > 1 /\ parts[Len(parts)] = <<>>
    THEN SubSeq(parts, 1, Len(parts) - 1) ELSE parts
IPv4OK(labels) ==
    AllDigits(labels[Len(labels)]) =>
        /\ Len(labels) <= 4
        /\ \A i \in 1..Len(labels) : AllDigits(labels[i])
        /\ \A i \in 1..(Len(labels) - 1) : DecimalCapped(labels[i], 0, 255) <= 255
        /\ DecimalCapped(labels[Len(labels)], 0, 256 ^ (5 - Len(labels)))
              < 256 ^ (5 - Len(labels))
DomainOK(h) ==
    /\ h # <<>>
    /\ \A i \in 1..Len(h) : h[i] \notin ForbiddenDomain
    /\ \A i \in 1..Len(h) : h[i] < 128 \/ (h[i] >= 880 /\ h[i] <= 1279)
    /\ IPv4OK(Labels(SplitOn(h, 46)))

\* host parser of a non-special scheme: an opaque host
OpaqueHostOK(h) ==
    /\ \A i \in 1..Len(h) : h[i] \notin ForbiddenHost

\* authority state .. port state on r, the input after the scheme's slashes
HostPortOK(host, port, hasColon, special) ==
    /\ hasColon =>
          /\ host # <<>>
          /\ \A i \in 1..Len(port) : IsDigit(port[i])
          /\ DecimalCapped(port, 0, MaxPort) <= MaxPort
    /\ special => host # <<>>
    /\ IF special THEN DomainOK(host) ELSE OpaqueHostOK(host)
\* auth: the authority; hp: what follows its last '@'
AfterCredentialsOK(hp, hasAt, special) ==
    /\ hasAt => hp # <<>>
    /\ HostPortOK(SubSeq(hp, 1, FirstIn(hp, {ColonC}) - 1),
                  SubSeq(hp, FirstIn(hp, {ColonC}) + 1, Len(hp)),
                  FirstIn(hp, {ColonC}) <= Len(hp), special)
AuthorityPartOK(auth, special) ==
    AfterCredentialsOK(SubSeq(auth, LastIn(auth, {64}) + 1, Len(auth)),
                       LastIn(auth, {64}) > 0, special)
AuthorityOK(r, special) ==
    AuthorityPartOK(
        SubSeq(r, 1, FirstIn(r, {SlashC, 63, 35}
                                  \cup (IF special THEN {BackslashC} ELSE {})) - 1),
        special)

\* file host state: the host after "file://", which may be empty
FileHostPartOK(host) ==
    \/ host = <<>>
    \/ Len(host) = 2 /\ IsAlpha(host[1]) /\ host[2] \in {ColonC, 124}
    \/ DomainOK(host)
FileHostOK(r) == FileHostPartOK(SubSeq(r, 1, FirstIn(r, {SlashC, BackslashC, 63, 35}) - 1))

IsSlashLike(c) == c = SlashC \/ c = BackslashC

\* the parser's states after a scheme was read; sameAsBase: a base with the same
\* special scheme was given
AfterSchemeOK(scheme, r, sameAsBase) ==
    IF scheme = FileScheme
    THEN IF Len(r) >= 2 /\ IsSlashLike(r[1]) /\ IsSlashLike(r[2])
         THEN FileHostOK(SubSeq(r, 3, Len(r))) ELSE TRUE
    ELSE IF scheme \in SpecialSchemes
    THEN IF sameAsBase /\ ~(Len(r) >= 2 /\ IsSlashLike(r[1]) /\ IsSlashLike(r[2]))
         THEN TRUE
         ELSE AuthorityOK(DropLeading(r, {SlashC, BackslashC}), TRUE)
    ELSE IF Len(r) >= 2 /\ r[1] = SlashC /\ r[2] = SlashC
         THEN AuthorityOK(SubSeq(r, 3, Len(r)), FALSE)
         ELSE TRUE

\* new URL(url) does not throw
ParsesAbsolute(url) ==
    LET s == UrlInput(url)
        n == SchemeLen(s)
    IN  n >= 0 /\ AfterSchemeOK(LowerStr(SubSeq(s, 1, n)), SubSeq(s, n + 2, Len(s)), FALSE)

\* new URL(url, 'http://example.com') does not throw
ParsesWithHttpBase(url) ==
    LET s == UrlInput(url)
        n == SchemeLen(s)
    IN  IF n >= 0
        THEN AfterSchemeOK(LowerStr(SubSeq(s, 1, n)), SubSeq(s, n + 2, Len(s)),
                           LowerStr(SubSeq(s, 1, n)) = HttpScheme)
        ELSE IF Len(s) >= 2 /\ IsSlashLike(s[1]) /\ IsSlashLike(s[2])
             THEN AuthorityOK(DropLeading(s, {SlashC, BackslashC}), TRUE)
             ELSE TRUE

\* isFullUrl(url)
IsFullUrl(url) == ParsesAbsolute(url)

-----------------------------------------------------------------------------
(* JavaScript values *)

Undefined == [t |-> "undefined", s |-> <<>>, e |-> <<>>, h |-> "none"]
Null == [t |-> "null", s |-> <<>>, e |-> <<>>, h |-> "none"]
Number == [t |-> "number", s |-> <<>>, e |-> <<>>, h |-> "none"]
Boolean == [t |-> "boolean", s |-> <<>>, e |-> <<>>, h |-> "none"]
JsStr(s) == [t |-> "string", s |-> s, e |-> <<>>, h |-> "none"]
\* a plain object literal with own entries e (in enumeration order)
Obj(e) == [t |-> "object", s |-> <<>>, e |-> e, h |-> "none"]
\* Object.create(null) with entries e
NullProtoObj(e) == [t |-> "nullproto", s |-> <<>>, e |-> e, h |-> "none"]
\* an array; an instance of a user class; a built-in such as Date, Map, Set, RegExp
Array == [t |-> "array", s |-> <<>>, e |-> <<>>, h |-> "none"]
Instance(e) == [t |-> "instance", s |-> <<>>, e |-> e, h |-> "none"]
BuiltIn == [t |-> "builtin", s |-> <<>>, e |-> <<>>, h |-> "none"]
\* new Proxy(Obj(e), handler); h names what the handler does:
\*   "none"                  no trap
\*   "ownKeysThrows"         the ownKeys trap throws
\*   "ownKeysGrows"          the ownKeys trap returns one more key at each call
\*   "hasTrue"               the has trap answers true for every key
\*   "getThrows"             the get trap throws
\*   "getFresh"              the get trap returns a new object at each call
\*   "getForwards"           the get trap notes the key and returns the target's value
\*   "getPrototypeOfThrows"  the getPrototypeOf trap throws
ProxyOf(e, h) == [t |-> "proxy", s |-> <<>>, e |-> e, h |-> h]
Handlers == {"none", "ownKeysThrows", "ownKeysGrows", "hasTrue", "getThrows", "getFresh",
             "getForwards", "getPrototypeOfThrows"}

Entry(k, v) == [k |-> k, v |-> v]

\* typeof v
TypeOf(v) ==
    CASE v.t \in {"undefined", "number", "boolean", "string"} -> v.t
      [] OTHER -> "object"
\* !v
Falsy(v) == v.t \in {"undefined", "null"} \/ (v.t = "string" /\ v.s = <<>>)

HasKey(o, k) == \E i \in 1..Len(o.e) : o.e[i].k = k
\* o[k], for a key the handler of o does not intercept
Get(o, k) ==
    IF HasKey(o, k) THEN o.e[CHOOSE i \in 1..Len(o.e) : o.e[i].k = k].v ELSE Undefined

-----------------------------------------------------------------------------
(* Regular expressions, as sets of positions: a position p stands for "the  *)
(* pattern so far has matched s[1..p-1]".                                   *)

\* one element of class C; C*; C+; a literal
One(s, P, C(_)) == {p + 1 : p \in {q \in P : q <= Len(s) /\ C(s[q])}}
Star(s, P, C(_)) ==
    {q \in 1..(Len(s) + 1) : \E p \in P : p <= q /\ \A i \in p..(q - 1) : C(s[i])}
Plus(s, P, C(_)) == Star(s, One(s, P, C), C)
Lit(s, P, l) ==
    {p + Len(l) : p \in {q \in P : q + Len(l) - 1 <= Len(s) /\ SubSeq(s, q, q + Len(l) - 1) = l}}

\* \s of a regular expression, which is also what String.prototype.trim removes
IsSpace(c) ==
    \/ c \in {9, 10, 11, 12, 13, 32, 160, 5760, 8232, 8233, 8239, 8287, 12288, 65279}
    \/ (c >= 8192 /\ c <= 8202)
\* '.' of a regular expression: anything but a line terminator
IsDot(c) == c \notin {10, 13, 8232, 8233}
Trim(s) ==
    IF \A i \in 1..Len(s) : IsSpace(s[i]) THEN <<>>
    ELSE SubSeq(s, CHOOSE i \in 1..Len(s) : ~IsSpace(s[i]) /\ \A j \in 1..(i - 1) : IsSpace(s[j]),
                   CHOOSE i \in 1..Len(s) : ~IsSpace(s[i]) /\ \A j \in (i + 1)..Len(s) : IsSpace(s[j]))

\* [a-zA-Z\d+.-]   [a-zA-Z\d._~!$&'()*+,;=%-]   [a-zA-Z\d.-]
IsSchemeChar(c) == IsAlnum(c) \/ c \in {43, 46, 45}
IsUserInfoChar(c) == IsAlnum(c) \/ c \in {46, 95, 126, 33, 36, 38, 39, 40, 41, 42, 43, 44, 59, 61, 37, 45}
IsHostChar(c) == IsAlnum(c) \/ c \in {46, 45}

\* #hasValidOrigin(url):
\* /^[a-zA-Z][a-zA-Z\d+.-]*:\/\/(?:UI*(?::UI*)?@)?[a-zA-Z\d.-]+(?::[0-9]+)?(?:\/.*)?$/
HasValidOrigin(url) ==
    LET p1 == One(url, {1}, IsAlpha)
        p2 == Star(url, p1, IsSchemeChar)
        p3 == Lit(url, p2, <<ColonC, SlashC, SlashC>>)
        u1 == Star(url, p3, IsUserInfoChar)
        u2 == u1 \cup Star(url, Lit(url, u1, <<ColonC>>), IsUserInfoChar)
        p4 == p3 \cup Lit(url, u2, <<64>>)
        p5 == Plus(url, p4, IsHostChar)
        p6 == p5 \cup Plus(url, Lit(url, p5, <<ColonC>>), IsDigit)
        p7 == p6 \cup Star(url, Lit(url, p6, <<SlashC>>), IsDot)
    IN  (Len(url) + 1) \in p7

\* #isRelativeURL(specifier)
DotSlash == <<46, SlashC>>
DotDotSlash == <<46, 46, SlashC>>
IsRelativeURL(specifier) == StartsWith(specifier, DotSlash) \/ StartsWith(specifier, DotDotSlash)

\* #isBareSpecifier(specifier)
IsBareSpecifierIgnoresSlash(specifier) ==
    ~IsRelativeURL(specifier) /\ ~HasValidOrigin(specifier)
IsBareSpecifier(specifier) ==
    /\ ~StartsWith(specifier, <<SlashC>>)
    /\ ~IsRelativeURL(specifier)
    /\ ~HasValidOrigin(specifier)

\* isValidIntegrityValue(integrity):
\* /^(sha256|sha384|sha512)-[A-Za-z0-9+/]+=*(\s+(sha256|sha384|sha512)-[A-Za-z0-9+/]+=*)*$/
IsBase64Char(c) == IsAlnum(c) \/ c \in {43, 47}
IsEquals(c) == c = 61
Sha == Str(<<"s", "h", "a">>)
SriToken(s, P) ==
    LET a == Lit(s, P, Sha)
        b == Lit(s, a, Str(<<"2","5","6">>)) \cup Lit(s, a, Str(<<"3","8","4">>))
               \cup Lit(s, a, Str(<<"5","1","2">>))
        c == Lit(s, b, <<45>>)
        d == Plus(s, c, IsBase64Char)
    IN  Star(s, d, IsEquals)
RECURSIVE SriMore(_, _)
SriMore(s, P) ==
    LET Q == P \cup SriToken(s, Plus(s, P, IsSpace))
    IN  IF Q = P THEN P ELSE SriMore(s, Q)
IsValidIntegrityValueUntrimmed(integrity) ==
    (Len(integrity) + 1) \in SriMore(integrity, SriToken(integrity, {1}))
IsValidIntegrityValue(integrity) ==
    LET s == Trim(integrity)
    IN  (Len(s) + 1) \in SriMore(s, SriToken(s, {1}))

-----------------------------------------------------------------------------
(* validateUnicodeSecurity(url): the list of issues found in url *)

Issue(m, ch, code) == [m |-> m, ch |-> ch, code |-> code]

\* /[\u200B-\u200F\u2028\u2029\u202A-\u202E\u2060-\u2064\u206A-\u206F\uFEFF]/
IsInvisible(c) ==
    \/ (c >= 8203 /\ c <= 8207) \/ c = 8232 \/ c = 8233 \/ (c >= 8234 /\ c <= 8238)
    \/ (c >= 8288 /\ c <= 8292) \/ (c >= 8298 /\ c <= 8303) \/ c = 65279
\* /[\u202A-\u202E\u2066-\u2069]/
IsBidi(c) == (c >= 8234 /\ c <= 8238) \/ (c >= 8294 /\ c <= 8297)
IsCyrillic(c) == c >= 1024 /\ c <= 1279
IsGreek(c) == c >= 880 /\ c <= 1023
IsArabic(c) == c >= 1536 /\ c <= 1791
IsHebrew(c) == c >= 1424 /\ c <= 1535
AnyChar(s, C(_)) == \E i \in 1..Len(s) : C(s[i])
ScriptCount(s) ==
    Cardinality({k \in 1..5 :
        \/ k = 1 /\ AnyChar(s, IsAlpha)
        \/ k = 2 /\ AnyChar(s, IsCyrillic)
        \/ k = 3 /\ AnyChar(s, IsGreek)
        \/ k = 4 /\ AnyChar(s, IsArabic)
        \/ k = 5 /\ AnyChar(s, IsHebrew)})

\* suspiciousCharMap: the code units that look like a Latin letter
SuspiciousChars == {1072, 1086, 1088, 1077, 1091, 1093, 959, 945}

\* url.codePointAt(i), i counted from 1
\* 0xD800, 0xDC00 (UTF-16 surrogates) and 0x10000
HighSurrogateBase == 54 * 1024
LowSurrogateBase == 55 * 1024
SupplementaryBase == 65536
CodePointAt(s, i) ==
    IF /\ s[i] >= HighSurrogateBase /\ s[i] < LowSurrogateBase
       /\ i + 1 <= Len(s) /\ s[i + 1] >= LowSurrogateBase /\ s[i + 1] <= 57343
    THEN (s[i] - HighSurrogateBase) * 1024 + (s[i + 1] - LowSurrogateBase) + SupplementaryBase
    ELSE s[i]

\* the loop over the code units of url, from index i on
RECURSIVE CharIssues(_, _)
CharIssues(s, i) ==
    IF i > Len(s) THEN <<>>
    ELSE LET code == CodePointAt(s, i)
         IN  (IF s[i] \in SuspiciousChars THEN <<Issue("lookalike", s[i], code)>> ELSE <<>>)
             \o (IF code # 0 /\ code > SupplementaryBase
                 THEN <<Issue("high", s[i], code)>> ELSE <<>>)
             \o CharIssues(s, i + 1)

ValidateUnicodeSecurityNoScripts(url) ==
    (IF AnyChar(url, IsInvisible) THEN <<Issue("invisible", 0, 0)>> ELSE <<>>)
    \o (IF AnyChar(url, IsBidi) THEN <<Issue("bidi", 0, 0)>> ELSE <<>>)
    \o CharIssues(url, 1)
ValidateUnicodeSecurity(url) ==
    (IF AnyChar(url, IsInvisible) THEN <<Issue("invisible", 0, 0)>> ELSE <<>>)
    \o (IF AnyChar(url, IsBidi) THEN <<Issue("bidi", 0, 0)>> ELSE <<>>)
    \o (IF ScriptCount(url) > 1 THEN <<Issue("mixed", 0, 0)>> ELSE <<>>)
    \o CharIssues(url, 1)

-----------------------------------------------------------------------------
(* validate(importMap) *)

\* an error message: the template m, the context prefix c ('Import' or
\* 'Scoped import'), the strings a filled in, and the Unicode issue u
NoIssue == Issue("", 0, 0)
Err(m, c, a) == [m |-> m, c |-> c, a |-> a, u |-> NoIssue]
UErr(m, c, a, u) == [m |-> m, c |-> c, a |-> a, u |-> u]

RECURSIVE AddAll(_, _)
AddAll(r, es) == IF es = <<>> THEN r ELSE AddAll(VRAddError(r, Head(es)), Tail(es))

\* isProxy(obj), for obj an object: a throw inside it is caught and answers true
IsProxy(obj) ==
    \/ obj.t = "proxy" /\ obj.h \in {"ownKeysThrows", "ownKeysGrows", "hasTrue",
                                     "getThrows", "getFresh"}
    \/ obj.t \in {"array", "builtin"}

\* isPlainObject(obj): "true", "false", or "throw" when it raises
IsPlainObject(obj) ==
    IF TypeOf(obj) # "object" \/ obj.t = "null" THEN "false"
    ELSE IF IsProxy(obj) THEN "false"
    ELSE IF obj.t = "proxy" /\ obj.h = "getPrototypeOfThrows" THEN "throw"
    ELSE IF obj.t \in {"object", "nullproto", "proxy"} THEN "true"
    ELSE "false"

\* "Validate trailing slash consistency"
TrailingSlashErrorsMirrored(specifier, address, c, scopePrefix) ==
    IF EndsWith(address.s, <<SlashC>>) /\ ~EndsWith(specifier, <<SlashC>>)
    THEN <<Err("ends with / but address does not", c, <<specifier, scopePrefix, address.s>>)>>
    ELSE <<>>
TrailingSlashErrors(specifier, address, c, scopePrefix) ==
    IF EndsWith(specifier, <<SlashC>>) /\ ~EndsWith(address.s, <<SlashC>>)
    THEN <<Err("ends with / but address does not", c, <<specifier, scopePrefix, address.s>>)>>
    ELSE <<>>

ImportEntryErrorsGoesOn(specifier, address, c, scopePrefix) ==
    IF address.t # "string"
    THEN <<Err("address must be a string", c, <<specifier, scopePrefix>>)>>
    ELSE (IF specifier = <<>>
          THEN <<Err("specifier cannot be empty", c, <<scopePrefix>>)>> ELSE <<>>)
         \o (IF address.s = <<>>
             THEN <<Err("address cannot be empty", c, <<specifier, scopePrefix>>)>> ELSE <<>>)
         \o (IF IsFullUrl(address.s) THEN <<>>
             ELSE IF Includes(address.s, <<ColonC, SlashC, SlashC>>)
             THEN <<Err("appears to be a malformed URL", c, <<address.s, scopePrefix>>)>>
             ELSE IF ~ParsesWithHttpBase(address.s)
             THEN <<Err("contains invalid URL characters", c, <<address.s, scopePrefix>>)>>
             ELSE <<>>)
         \o [i \in 1..Len(ValidateUnicodeSecurity(address.s)) |->
                UErr("unicode issue", c, <<address.s, scopePrefix>>,
                     ValidateUnicodeSecurity(address.s)[i])]
         \o TrailingSlashErrors(specifier, address, c, scopePrefix)
\* the checks of one (specifier, address) pair of validateImportEntries
ImportEntryErrors(specifier, address, c, scopePrefix) ==
    IF address.t # "string"
    THEN <<Err("address must be a string", c, <<specifier, scopePrefix>>)>>
    ELSE IF specifier = <<>> \/ address.s = <<>>
    THEN (IF specifier = <<>>
          THEN <<Err("specifier cannot be empty", c, <<scopePrefix>>)>> ELSE <<>>)
         \o (IF address.s = <<>>
             THEN <<Err("address cannot be empty", c, <<specifier, scopePrefix>>)>> ELSE <<>>)
    ELSE (IF IsFullUrl(address.s) THEN <<>>
          ELSE IF Includes(address.s, <<ColonC, SlashC, SlashC>>)
          THEN <<Err("appears to be a malformed URL", c, <<address.s, scopePrefix>>)>>
          ELSE IF ~ParsesWithHttpBase(address.s)
          THEN <<Err("contains invalid URL characters", c, <<address.s, scopePrefix>>)>>
          ELSE <<>>)
         \o [i \in 1..Len(ValidateUnicodeSecurity(address.s)) |->
                UErr("unicode issue", c, <<address.s, scopePrefix>>,
                     ValidateUnicodeSecurity(address.s)[i])]
         \o TrailingSlashErrors(specifier, address, c, scopePrefix)

\* validateImportEntries(imports, result, contextPrefix, scopePrefix)
RECURSIVE ValidateImportEntries(_, _, _, _)
ValidateImportEntries(entries, r, c, scopePrefix) ==
    IF entries = <<>> THEN r
    ELSE ValidateImportEntries(Tail(entries),
            AddAll(r, ImportEntryErrors(Head(entries).k, Head(entries).v, c, scopePrefix)),
            c, scopePrefix)

\* the checks of one (url, integrityValue) pair of validateIntegrityEntries
IntegrityEntryErrors(url, value) ==
    IF value.t # "string"
    THEN <<Err("integrity value must be a string", "", <<url>>)>>
    ELSE IF url = <<>> \/ value.s = <<>>
    THEN (IF url = <<>> THEN <<Err("integrity URL cannot be empty", "", <<>>)>> ELSE <<>>)
         \o (IF value.s = <<>>
             THEN <<Err("integrity value cannot be empty", "", <<url>>)>> ELSE <<>>)
    ELSE IF ~(IF IsFullUrl(url) THEN ParsesAbsolute(url) ELSE ParsesWithHttpBase(url))
    THEN <<Err("integrity URL is not a valid URL", "", <<url>>)>>
    ELSE [i \in 1..Len(ValidateUnicodeSecurity(url)) |->
             UErr("integrity URL unicode issue", "", <<url>>, ValidateUnicodeSecurity(url)[i])]
         \o (IF ~IsValidIntegrityValue(value.s)
             THEN <<Err("is not a valid subresource integrity hash", "", <<value.s, url>>)>>
             ELSE <<>>)

\* validateIntegrityEntries(integrity, result)
RECURSIVE ValidateIntegrityEntries(_, _)
ValidateIntegrityEntries(entries, r) ==
    IF entries = <<>> THEN r
    ELSE ValidateIntegrityEntries(Tail(entries),
            AddAll(r, IntegrityEntryErrors(Head(entries).k, Head(entries).v)))

KImports == Str(<<"i","m","p","o","r","t","s">>)
KScopes == Str(<<"s","c","o","p","e","s">>)
KIntegrity == Str(<<"i","n","t","e","g","r","i","t","y">>)

\* what a step of validate hands on: the outcome so far, or that it raised
Ok(r) == [threw |-> FALSE, vr |-> r]
Threw(r) == [threw |-> TRUE, vr |-> r]

\* "Validate imports section"
ImportsSectionRequired(m, r) ==
    IF Get(m, KImports).t = "undefined"
    THEN Ok(VRAddError(r, Err("imports must be an object", "", <<>>)))
    ELSE Ok(r)
ImportsSection(m, r) ==
    LET f == Get(m, KImports)
    IN  IF f.t = "undefined" THEN Ok(r)
        ELSE IF TypeOf(f) # "object" \/ f.t = "null"
        THEN Ok(VRAddError(r, Err("imports must be an object", "", <<>>)))
        ELSE IF IsPlainObject(f) = "throw" THEN Threw(r)
        ELSE IF IsPlainObject(f) = "false"
        THEN Ok(VRAddError(r, Err("imports must be a plain object", "", <<>>)))
        ELSE Ok(ValidateImportEntries(f.e, r, "Import", <<>>))

\* the errors of a scope prefix
ScopePrefixErrors(scopePrefix) ==
    (IF scopePrefix = <<>> THEN <<Err("empty scope prefix", "", <<>>)>> ELSE <<>>)
    \o (IF Includes(scopePrefix, <<ColonC, SlashC, SlashC>>) /\ ~ParsesAbsolute(scopePrefix)
        THEN <<Err("scope prefix appears to be a malformed URL", "", <<scopePrefix>>)>>
        ELSE <<>>)

\* the loop over Object.entries(importMap.scopes)
RECURSIVE ScopeEntries(_, _)
ScopeEntries(entries, r) ==
    IF entries = <<>> THEN Ok(r)
    ELSE LET scopePrefix == Head(entries).k
             scopeImports == Head(entries).v
         IN  IF TypeOf(scopeImports) # "object" \/ scopeImports.t = "null"
             THEN ScopeEntries(Tail(entries),
                     VRAddError(r, Err("scope imports must be an object", "", <<scopePrefix>>)))
             ELSE IF IsPlainObject(scopeImports) = "throw" THEN Threw(r)
             ELSE IF IsPlainObject(scopeImports) = "false"
             THEN ScopeEntries(Tail(entries),
                     VRAddError(r, Err("scope imports must be a plain object", "", <<scopePrefix>>)))
             ELSE ScopeEntries(Tail(entries),
                     ValidateImportEntries(scopeImports.e,
                         AddAll(r, ScopePrefixErrors(scopePrefix)),
                         "Scoped import", scopePrefix))

\* "Validate scopes section"
ScopesSection(m, r) ==
    LET f == Get(m, KScopes)
    IN  IF f.t = "undefined" THEN Ok(r)
        ELSE IF TypeOf(f) # "object" \/ f.t = "null"
        THEN Ok(VRAddError(r, Err("scopes must be an object", "", <<>>)))
        ELSE IF IsPlainObject(f) = "throw" THEN Threw(r)
        ELSE IF IsPlainObject(f) = "false"
        THEN Ok(VRAddError(r, Err("scopes must be a plain object", "", <<>>)))
        ELSE ScopeEntries(f.e, r)

\* "Validate integrity section"
IntegritySection(m, r) ==
    LET f == Get(m, KIntegrity)
    IN  IF f.t = "undefined" THEN Ok(r)
        ELSE IF TypeOf(f) # "object" \/ f.t = "null"
        THEN Ok(VRAddError(r, Err("integrity must be an object", "", <<>>)))
        ELSE IF IsPlainObject(f) = "throw" THEN Threw(r)
        ELSE IF IsPlainObject(f) = "false"
        THEN Ok(VRAddError(r, Err("integrity must be a plain object", "", <<>>)))
        ELSE Ok(ValidateIntegrityEntries(f.e, r))

\* "Check for unknown top-level keys"
RECURSIVE UnknownKeysWhileValid(_, _)
UnknownKeysWhileValid(entries, r) ==
    IF entries = <<>> \/ ~VRValid(r) THEN r
    ELSE UnknownKeysWhileValid(Tail(entries),
            IF Head(entries).k \in {KImports, KScopes, KIntegrity} THEN r
            ELSE VRAddError(r, Err("unknown import map key", "", <<Head(entries).k>>)))
RECURSIVE UnknownKeys(_, _)
UnknownKeys(entries, r) ==
    IF entries = <<>> THEN r
    ELSE UnknownKeys(Tail(entries),
            IF Head(entries).k \in {KImports, KScopes, KIntegrity} THEN r
            ELSE VRAddError(r, Err("unknown import map key", "", <<Head(entries).k>>)))

\* the sections in turn: an exception raised by one leaves validate at once
AfterImports(m, a) == IF a.threw THEN a ELSE ScopesSection(m, a.vr)
AfterScopes(m, b) == IF b.threw THEN b ELSE IntegritySection(m, b.vr)
AfterIntegrity(m, c) == IF c.threw THEN c ELSE Ok(UnknownKeys(m.e, c.vr))

ValidateIntegrityFirst(importMap) ==
    IF Falsy(importMap) \/ TypeOf(importMap) # "object"
    THEN Ok(VRAddError(VRNew(TRUE), Err("import map must be an object", "", <<>>)))
    ELSE IF IsPlainObject(importMap) = "throw" THEN Threw(VRNew(TRUE))
    ELSE IF IsPlainObject(importMap) = "false"
    THEN Ok(VRAddError(VRNew(TRUE), Err("import map must be a plain object", "", <<>>)))
    ELSE LET a == IntegritySection(importMap, VRNew(TRUE))
             b == IF a.threw THEN a ELSE ImportsSection(importMap, a.vr)
             c == AfterImports(importMap, b)
         IN  IF c.threw THEN c ELSE Ok(UnknownKeys(importMap.e, c.vr))

\* validate(importMap): [threw, vr]
Validate(importMap) ==
    IF Falsy(importMap) \/ TypeOf(importMap) # "object"
    THEN Ok(VRAddError(VRNew(TRUE), Err("import map must be an object", "", <<>>)))
    ELSE IF IsPlainObject(importMap) = "throw" THEN Threw(VRNew(TRUE))
    ELSE IF IsPlainObject(importMap) = "false"
    THEN Ok(VRAddError(VRNew(TRUE), Err("import map must be a plain object", "", <<>>)))
    ELSE AfterIntegrity(importMap,
            AfterScopes(importMap,
                AfterImports(importMap, ImportsSection(importMap, VRNew(TRUE)))))

-----------------------------------------------------------------------------
(* The parts of a parsed URL of a special scheme (http, https, ws, wss,     *)
(* ftp): what new URL(..).origin, .pathname and .href return.  Code units  *)
(* the parser would percent-encode or map (IDNA) are not part of the        *)
(* modelled inputs and are kept as they are.                                *)

RECURSIVE DecStr(_)
DecStr(n) == IF n < 10 THEN <<48 + n>> ELSE DecStr(n \div 10) \o <<48 + (n % 10)>>

RECURSIVE Join(_, _)
Join(segs, sep) ==
    IF segs = <<>> THEN <<>>
    ELSE IF Len(segs) = 1 THEN segs[1]
    ELSE segs[1] \o sep \o Join(Tail(segs), sep)

RECURSIVE NonEmpty(_)
NonEmpty(segs) ==
    IF segs = <<>> THEN <<>>
    ELSE IF Head(segs) = <<>> THEN NonEmpty(Tail(segs)) ELSE <<Head(segs)>> \o NonEmpty(Tail(segs))

DefaultPort(scheme) ==
    CASE scheme \in {HttpScheme, Str(<<"w","s">>)} -> 80
      [] scheme \in {Str(<<"h","t","t","p","s">>), Str(<<"w","s","s">>)} -> 443
      [] scheme = Str(<<"f","t","p">>) -> 21
      [] OTHER -> -1

\* path state: the path of raw (the input from the first path code unit to the
\* query or fragment), as a list of segments
Popped(path) == IF path = <<>> THEN path ELSE SubSeq(path, 1, Len(path) - 1)
WithSegment(path, buffer, atEnd) ==
    IF buffer = <<46, 46>>
    THEN (IF atEnd THEN Append(Popped(path), <<>>) ELSE Popped(path))
    ELSE IF buffer = <<46>>
    THEN (IF atEnd THEN Append(path, <<>>) ELSE path)
    ELSE Append(path, buffer)
RECURSIVE PathSegmentsTo(_, _, _)
PathSegmentsTo(raw, path, stop) ==
    IF stop > Len(raw) THEN WithSegment(path, SubSeq(raw, 1, stop - 1), TRUE)
    ELSE PathSegmentsTo(SubSeq(raw, stop + 1, Len(raw)),
                        WithSegment(path, SubSeq(raw, 1, stop - 1), FALSE),
                        FirstIn(SubSeq(raw, stop + 1, Len(raw)), {SlashC, BackslashC}))
PathSegments(raw, path) == PathSegmentsTo(raw, path, FirstIn(raw, {SlashC, BackslashC}))

\* the URL record of a special scheme, r being the input after the scheme's ':' and
\* the slashes that follow it
PortNo(port) == IF port = <<>> THEN -1 ELSE DecimalCapped(port, 0, MaxPort)
PortOf(scheme, portNo) ==
    IF portNo = -1 \/ portNo = DefaultPort(scheme) THEN <<>> ELSE DecStr(portNo)
PathOf(rawPath) == PathSegments(IF rawPath # <<>> THEN Tail(rawPath) ELSE rawPath, <<>>)
\* auth: the authority; at: the index of its last '@'; hp: what follows it; colon:
\* the index of the first ':' of hp; rest: the input from the path on; tailAt:
\* the index of the query or fragment in rest
UrlParts(scheme, auth, at, hp, colon, rest, tailAt) ==
    [scheme |-> scheme,
     cred |-> SubSeq(auth, 1, at),
     host |-> LowerStr(SubSeq(hp, 1, colon - 1)),
     port |-> PortOf(scheme, PortNo(SubSeq(hp, colon + 1, Len(hp)))),
     path |-> PathOf(SubSeq(rest, 1, tailAt - 1)),
     tail |-> SubSeq(rest, tailAt, Len(rest))]
UrlOfAuthority(scheme, auth, at, hp, rest) ==
    UrlParts(scheme, auth, at, hp, FirstIn(hp, {ColonC}), rest, FirstIn(rest, {63, 35}))
UrlFrom(scheme, auth, rest) ==
    UrlOfAuthority(scheme, auth, LastIn(auth, {64}),
                   SubSeq(auth, LastIn(auth, {64}) + 1, Len(auth)), rest)
SpecialUrl(scheme, r) ==
    UrlFrom(scheme,
            SubSeq(r, 1, FirstIn(r, {SlashC, BackslashC, 63, 35}) - 1),
            SubSeq(r, FirstIn(r, {SlashC, BackslashC, 63, 35}), Len(r)))

\* url.origin, url.pathname, url.href
Origin(u) ==
    u.scheme \o <<ColonC, SlashC, SlashC>> \o u.host
      \o (IF u.port = <<>> THEN <<>> ELSE <<ColonC>> \o u.port)
Pathname(u) == <<SlashC>> \o Join(u.path, <<SlashC>>)
Href(u) ==
    u.scheme \o <<ColonC, SlashC, SlashC>> \o u.cred \o u.host
      \o (IF u.port = <<>> THEN <<>> ELSE <<ColonC>> \o u.port)
      \o Pathname(u) \o u.tail

\* new URL(importer), for an importer that #hasValidOrigin accepts
UrlOfInput(s, n) ==
    SpecialUrl(LowerStr(SubSeq(s, 1, n)),
               DropLeading(SubSeq(s, n + 2, Len(s)), {SlashC, BackslashC}))
SchemeOfInput(s) == LowerStr(SubSeq(s, 1, SchemeLen(s)))
ImporterUrl(importer) == UrlOfInput(UrlInput(importer), SchemeLen(UrlInput(importer)))

\* new URL(pathResult, origin), for the origin of a special scheme and a pathResult
\* that starts with '/': [ok, href]
UrlOfAuthorityInput(r, originUrl) ==
    [ok |-> AuthorityOK(r, TRUE), href |-> Href(SpecialUrl(originUrl.scheme, r))]
UrlOfPathInput(s, tailAt, originUrl) ==
    [ok |-> TRUE,
     href |-> Href([originUrl EXCEPT !.cred = <<>>,
                                     !.path = PathOf(SubSeq(s, 1, tailAt - 1)),
                                     !.tail = SubSeq(s, tailAt, Len(s))])]
UrlOnOriginInput(s, originUrl) ==
    IF Len(s) >= 2 /\ IsSlashLike(s[1]) /\ IsSlashLike(s[2])
    THEN UrlOfAuthorityInput(DropLeading(s, {SlashC, BackslashC}), originUrl)
    ELSE UrlOfPathInput(s, FirstIn(s, {63, 35}), originUrl)
UrlOnOrigin(pathResult, originUrl) == UrlOnOriginInput(UrlInput(pathResult), originUrl)

-----------------------------------------------------------------------------
(* ResolverImpl *)

Pair(k, v) == [k |-> k, v |-> v]

\* Array.prototype.sort(([a], [b]) => b.length - a.length): a stable sort of
\* the entries by key length, longest first
RECURSIVE InsertByLen(_, _)
InsertByLen(sorted, x) ==
    IF sorted = <<>> THEN <<x>>
    ELSE IF Len(Head(sorted).k) >= Len(x.k)
         THEN <<Head(sorted)>> \o InsertByLen(Tail(sorted), x)
         ELSE <<x>> \o sorted
RECURSIVE SortByKeyLenFrom(_, _)
SortByKeyLenFrom(entries, sorted) ==
    IF entries = <<>> THEN sorted
    ELSE SortByKeyLenFrom(Tail(entries), InsertByLen(sorted, Head(entries)))
SortByKeyLenNot(entries) == entries
SortByKeyLen(entries) == SortByKeyLenFrom(entries, <<>>)

\* Object.entries(o) of a mapping whose values are strings: [key, value] pairs
RECURSIVE StringPairs(_)
StringPairs(es) ==
    IF es = <<>> THEN <<>> ELSE <<Pair(Head(es).k, Head(es).v.s)>> \o StringPairs(Tail(es))
StringEntries(o) == StringPairs(o.e)

\* .map(([scopePrefix, scopeImports]) => [scopePrefix, sorted entries of scopeImports])
RECURSIVE SortedInside(_)
SortedInside(es) ==
    IF es = <<>> THEN <<>>
    ELSE <<Pair(Head(es).k, SortByKeyLen(StringEntries(Head(es).v)))>> \o SortedInside(Tail(es))

\* #prepareResolutionData(): the sorted imports and the sorted scopes of im
SortedImportsOfAsListed(im) ==
    IF Falsy(Get(im, KImports)) THEN <<>> ELSE StringEntries(Get(im, KImports))
SortedImportsOf(im) ==
    IF Falsy(Get(im, KImports)) THEN <<>>
    ELSE SortByKeyLen(StringEntries(Get(im, KImports)))
SortedScopesOf(im) ==
    IF Falsy(Get(im, KScopes)) THEN <<>>
    ELSE SortByKeyLen(SortedInside(Get(im, KScopes).e))

\* constructor(importMap): [threw, self]
NoResolver == [im |-> Undefined, validationResult |-> VRNew(TRUE),
               sortedImports |-> <<>>, sortedScopes |-> <<>>]
ConstructedAlwaysPrepares(importMap, v) ==
    IF v.threw THEN [threw |-> TRUE, self |-> NoResolver]
    ELSE [threw |-> FALSE,
          self |-> [im |-> importMap,
                    validationResult |-> v.vr,
                    sortedImports |-> SortedImportsOf(importMap),
                    sortedScopes |-> <<>>]]
Constructed(importMap, v) ==
    IF v.threw THEN [threw |-> TRUE, self |-> NoResolver]
    ELSE [threw |-> FALSE,
          self |-> [im |-> importMap,
                    validationResult |-> v.vr,
                    sortedImports |-> IF VRValid(v.vr) THEN SortedImportsOf(importMap) ELSE <<>>,
                    sortedScopes |-> IF VRValid(v.vr) THEN SortedScopesOf(importMap) ELSE <<>>]]
NewResolver(importMap) == Constructed(importMap, Validate(importMap))

\* the result of a lookup: null, or a string
NoMatch == [found |-> FALSE, value |-> <<>>]
Match(v) == [found |-> TRUE, value |-> v]

RECURSIVE ResolveFromSortedImportsByPrefix(_, _)
ResolveFromSortedImportsByPrefix(specifier, sortedImports) ==
    IF sortedImports = <<>> THEN NoMatch
    ELSE LET key == Head(sortedImports).k
             value == Head(sortedImports).v
         IN  IF EndsWith(key, <<SlashC>>) /\ StartsWith(specifier, key)
             THEN Match(value \o Slice(specifier, Len(key)))
             ELSE ResolveFromSortedImportsByPrefix(specifier, Tail(sortedImports))
\* #resolveFromSortedImports(specifier, sortedImports)
RECURSIVE ResolveFromSortedImports(_, _)
ResolveFromSortedImports(specifier, sortedImports) ==
    IF sortedImports = <<>> THEN NoMatch
    ELSE LET key == Head(sortedImports).k
             value == Head(sortedImports).v
         IN  IF key = specifier THEN Match(value)
             ELSE IF EndsWith(key, <<SlashC>>) /\ StartsWith(specifier, key)
             THEN Match(value \o Slice(specifier, Len(key)))
             ELSE ResolveFromSortedImports(specifier, Tail(sortedImports))

\* #doesScopeMatch(importer, scopePrefix)
DoesScopeMatch(importer, scopePrefix) ==
    \/ importer = scopePrefix
    \/ (EndsWith(scopePrefix, <<SlashC>>) /\ StartsWith(importer, scopePrefix))

\* #resolveFromScopes(specifier, importer), over the sorted scopes from the given one on
RECURSIVE ResolveFromScopesFirstOnly(_, _, _)
ResolveFromScopesFirstOnly(specifier, importer, sortedScopes) ==
    IF sortedScopes = <<>> THEN NoMatch
    ELSE IF DoesScopeMatch(importer, Head(sortedScopes).k)
         THEN ResolveFromSortedImports(specifier, Head(sortedScopes).v)
         ELSE ResolveFromScopesFirstOnly(specifier, importer, Tail(sortedScopes))
RECURSIVE ResolveFromScopes(_, _, _)
ResolveFromScopes(specifier, importer, sortedScopes) ==
    IF sortedScopes = <<>> THEN NoMatch
    ELSE LET resolved == IF DoesScopeMatch(importer, Head(sortedScopes).k)
                         THEN ResolveFromSortedImports(specifier, Head(sortedScopes).v)
                         ELSE NoMatch
         IN  IF resolved.found THEN resolved
             ELSE ResolveFromScopes(specifier, importer, Tail(sortedScopes))

\* the loop over the segments of the specifier
ApplySegmentsAppendsAll(segments, importerSegments) == importerSegments \o NonEmpty(segments)
RECURSIVE ApplySegments(_, _)
ApplySegments(segments, importerSegments) ==
    IF segments = <<>> THEN importerSegments
    ELSE LET segment == Head(segments)
         IN  ApplySegments(Tail(segments),
                IF segment = <<46>> \/ segment = <<>> THEN importerSegments
                ELSE IF segment = <<46, 46>>
                THEN (IF importerSegments = <<>> THEN importerSegments
                      ELSE SubSeq(importerSegments, 1, Len(importerSegments) - 1))
                ELSE Append(importerSegments, segment))

\* #resolveRelativePath(specifier, importer)
\* "Remove the filename if it exists (keep directory path)"
WithoutFilename(pathname, all) ==
    IF EndsWith(pathname, <<SlashC>>) \/ all = <<>> THEN all ELSE SubSeq(all, 1, Len(all) - 1)
\* "Reconstruct the URL properly": made is new URL(pathResult, importerOrigin)
HrefOrSpecifier(made, specifier) == IF made.ok THEN made.href ELSE specifier
\* "Ensure leading slash for absolute paths"
WithLeadingSlash(result, importer) ==
    IF StartsWith(importer, <<SlashC>>) /\ ~StartsWith(result, <<SlashC>>)
    THEN <<SlashC>> \o result ELSE result
\* the importer is the URL url, of a scheme that has an origin
RelativeToUrl(specifier, url) ==
    HrefOrSpecifier(
        UrlOnOrigin(<<SlashC>> \o Join(ApplySegments(SplitOn(specifier, SlashC),
                                           WithoutFilename(Pathname(url),
                                               NonEmpty(SplitOn(Pathname(url), SlashC)))),
                                       <<SlashC>>),
                    [url EXCEPT !.cred = <<>>, !.path = <<<<>>>>, !.tail = <<>>]),
        specifier)
ResolveRelativePath(specifier, importer) ==
    IF ~Includes(importer, <<SlashC>>) THEN specifier
    ELSE IF HasValidOrigin(importer) /\ ParsesAbsolute(importer)
    THEN \* a URL of another scheme has the origin 'null', no base for new URL
         IF SchemeOfInput(UrlInput(importer)) \notin (SpecialSchemes \ {FileScheme})
         THEN specifier
         ELSE RelativeToUrl(specifier, ImporterUrl(importer))
    ELSE WithLeadingSlash(
            Join(ApplySegments(SplitOn(specifier, SlashC),
                    NonEmpty(SplitOn(SubSeq(importer, 1, LastIn(importer, {SlashC})), SlashC))),
                 <<SlashC>>),
            importer)

\* resolve(specifier, importer): [threw, value]; importer and value are JavaScript
\* values (Undefined when no importer is given / nothing is returned)
Raised == [threw |-> TRUE, value |-> Undefined]
Returned(v) == [threw |-> FALSE, value |-> v]

ValidOnceBuilt(self) == TRUE
\* get valid()
Valid(self) == VRValid(self.validationResult)

\* "Step 1: Try scoped resolution first if importer is provided"
RECURSIVE FirstScopeWithKey(_, _)
FirstScopeWithKey(specifier, sortedScopes) ==
    IF sortedScopes = <<>> THEN NoMatch
    ELSE IF ResolveFromSortedImports(specifier, Head(sortedScopes).v).found
         THEN ResolveFromSortedImports(specifier, Head(sortedScopes).v)
         ELSE FirstScopeWithKey(specifier, Tail(sortedScopes))
ScopedStepWithoutImporter(self, specifier, importer) ==
    IF Falsy(Get(self.im, KScopes)) THEN NoMatch
    ELSE IF Falsy(importer) THEN FirstScopeWithKey(specifier, self.sortedScopes)
    ELSE ResolveFromScopes(specifier, importer.s, self.sortedScopes)
ScopedStep(self, specifier, importer) ==
    IF ~Falsy(importer) /\ ~Falsy(Get(self.im, KScopes))
    THEN ResolveFromScopes(specifier, importer.s, self.sortedScopes)
    ELSE NoMatch

\* "Step 2: Try global imports resolution"
GlobalStep(self, specifier) ==
    IF Len(self.sortedImports) > 0
    THEN ResolveFromSortedImports(specifier, self.sortedImports)
    ELSE NoMatch

\* resolve, past its guard
ResolveValid(self, specifier, importer) ==
    IF ScopedStep(self, specifier, importer).found
    THEN Returned(JsStr(ScopedStep(self, specifier, importer).value))
    ELSE IF GlobalStep(self, specifier).found
    THEN Returned(JsStr(GlobalStep(self, specifier).value))
    ELSE IF IsBareSpecifier(specifier) THEN Returned(Undefined)
    ELSE IF IsRelativeURL(specifier)
    THEN (IF ~Falsy(importer)
          THEN Returned(JsStr(ResolveRelativePath(specifier, importer.s)))
          ELSE Returned(JsStr(specifier)))
    ELSE Returned(JsStr(specifier))

ResolveUnguarded(self, specifier, importer) == ResolveValid(self, specifier, importer)
Resolve(self, specifier, importer) ==
    IF ~Valid(self) THEN Raised ELSE ResolveValid(self, specifier, importer)


\* what resolve leaves of the resolver: it assigns no field
AfterResolveConsumes(self, specifier, importer) ==
    [self EXCEPT !.sortedImports = IF self.sortedImports = <<>> THEN <<>>
                                   ELSE Tail(self.sortedImports)]
AfterResolve(self, specifier, importer) == self

-----------------------------------------------------------------------------
(* The import maps, specifiers and importers of the model *)

\* the sequences of at most n entries of E with distinct keys
RECURSIVE EntrySeqs(_, _)
EntrySeqs(E, n) ==
    IF n = 0 THEN {<<>>}
    ELSE LET prev == EntrySeqs(E, n - 1)
         IN  prev \cup {Append(pe[1], pe[2]) :
                          pe \in {qe \in prev \X E :
                                    \A i \in 1..Len(qe[1]) : qe[1][i].k # qe[2].k}}

KeyA == Str(<<"a">>)
KeyASlash == Str(<<"a", "/">>)
KeyAB == Str(<<"a", "/", "b">>)
KeyABSlash == Str(<<"a", "/", "b", "/">>)
AddrX == Str(<<"/", "x">>)
AddrYSlash == Str(<<"/", "y", "/">>)
AddrS == Str(<<"/", "s">>)
AddrTSlash == Str(<<"/", "t", "/">>)
PrefixP == Str(<<"/", "p", "/">>)
PrefixPQ == Str(<<"/", "p", "/", "q", "/">>)
PrefixPQM == Str(<<"/", "p", "/", "q", "/", "m", ".", "j", "s">>)

KeyDotR == Str(<<".", "/", "r">>)
AddrDotZ == Str(<<".", "/", "z", "/", ".", ".", "/", "w">>)
ImportEntries ==
    {Entry(k, JsStr(a)) : k \in {KeyA, KeyASlash, KeyAB, KeyABSlash}, a \in {AddrX, AddrYSlash}}
        \cup {Entry(KeyDotR, JsStr(AddrDotZ))}
ScopeMappings ==
    {Obj(<<>>), Obj(<<Entry(KeyASlash, JsStr(AddrTSlash))>>), Obj(<<Entry(KeyAB, JsStr(AddrS))>>),
     Obj(<<Entry(KeyASlash, JsStr(AddrTSlash)), Entry(KeyAB, JsStr(AddrS))>>)}
ScopeEntrySet == {Entry(p, m) : p \in {PrefixP, PrefixPQ, PrefixPQM}, m \in ScopeMappings}

\* maps that vary the imports
ImportsMaps ==
    {Obj(<<Entry(KImports, Obj(es))>> \o sc) :
        es \in EntrySeqs(ImportEntries, MaxEntries),
        sc \in {<<>>,
                <<Entry(KScopes, Obj(<<Entry(PrefixP, Obj(<<Entry(KeyAB, JsStr(AddrS))>>))>>))>>}}

\* maps that vary the scopes
ScopesMaps ==
    {Obj(im \o <<Entry(KScopes, Obj(ss))>>) :
        im \in {<<>>,
                <<Entry(KImports, Obj(<<Entry(KeyAB, JsStr(AddrX)),
                                        Entry(KeyABSlash, JsStr(AddrYSlash))>>))>>},
        ss \in EntrySeqs(ScopeEntrySet, MaxScopes)}

\* values that are not import maps, and maps with a field that is no mapping
OddValues ==
    {Undefined, Null, Number, Boolean, JsStr(<<>>), JsStr(KeyA), Array, BuiltIn,
     Instance(<<>>), NullProtoObj(<<>>), Obj(<<>>)}
      \cup {ProxyOf(<<>>, h) : h \in Handlers}
      \cup {ProxyOf(<<Entry(KImports, Obj(<<Entry(KeyA, Number)>>))>>, "getForwards")}
OddFieldMaps ==
    {Obj(<<Entry(f, v)>>) : f \in {KImports, KScopes, KIntegrity, KeyA}, v \in OddValues}
      \cup {Obj(<<Entry(KScopes, Obj(<<Entry(p, v)>>))>>) : p \in {PrefixP, <<>>}, v \in OddValues}
      \cup {Obj(<<Entry(KeyA, Number), Entry(KImports, v), Entry(KeyAB, Null)>>) :
               v \in {Null, Obj(<<>>), Obj(<<Entry(KeyA, Number)>>),
                      Obj(<<Entry(KeyA, JsStr(AddrX))>>)}}

\* maps with entries that break a rule
OddEntries ==
    {Entry(k, v) : k \in {<<>>, KeyA, KeyASlash},
                   v \in {Number, Null, JsStr(<<>>), JsStr(AddrX), JsStr(AddrYSlash),
                          JsStr(Str(<<"a", ":", "/", "/">>)), JsStr(Str(<<"/", "/">>))}}
OddEntryMaps ==
    {Obj(<<Entry(KImports, Obj(es))>>) : es \in EntrySeqs(OddEntries, 1)}
      \cup {Obj(<<Entry(KScopes, Obj(<<Entry(p, Obj(<<e>>))>>))>>) :
               p \in {<<>>, PrefixP, Str(<<"a", ":", "/", "/", ":">>)}, e \in OddEntries}
      \cup {Obj(<<Entry(KIntegrity, Obj(<<e>>))>>) :
               e \in OddEntries \cup
                     {Entry(AddrX, JsStr(Str(<<"s","h","a","2","5","6","-","A","b","+","/","=">>))),
                      Entry(AddrX, JsStr(Str(<<"s","h","a","1","-","A">>))),
                      Entry(Str(<<"/", "/">>), JsStr(Str(<<"s","h","a","1","-","A">>))),
                      Entry(Str(<<"/", "/">>), JsStr(Str(<<"s","h","a","2","5","6","-","A">>)))}}

\* maps with one integrity entry, of a url that parses
Sri256 == Str(<<"s","h","a","2","5","6","-","A">>)
Sri384 == Str(<<"s","h","a","3","8","4","-","b","+","/","=","=">>)
Sri512 == Str(<<"s","h","a","5","1","2","-","9">>)
IntegrityValues ==
    {Sri256, Sri384, Sri512,
     Sri256 \o <<32>> \o Sri384, Sri256 \o <<32, 32>> \o Sri512 \o <<32>> \o Sri384,
     Sri256 \o <<9>> \o Sri384, Sri256 \o <<10>> \o Sri512, Sri256 \o <<32, 160>> \o Sri512,
     <<32>> \o Sri256, Sri256 \o <<32>>, <<9>> \o Sri384 \o <<10>>,
     <<32>>, <<9, 32>>,
     Str(<<"s","h","a","2","5","6","-">>), Str(<<"s","h","a","2","5","6","-","=">>),
     Str(<<"s","h","a","2","5","6","-","A","=","B">>), Str(<<"s","h","a","2","5","6","A">>),
     Str(<<"s","h","a","1","-","A">>), Str(<<"m","d","5","-","A">>),
     Str(<<"S","H","A","2","5","6","-","A">>), Sri256 \o <<33>>,
     Sri256 \o Sri384, Sri256 \o <<44>> \o Sri384, Sri256 \o <<32>> \o Str(<<"s","h","a","1","-","A">>)}
IntegrityMaps ==
    {Obj(<<Entry(KIntegrity, Obj(<<Entry(u, JsStr(v))>>))>>) :
        u \in {AddrX, Str(<<"h","t","t","p",":","/","/","h","/","x">>)}, v \in IntegrityValues}

\* maps with one address or one integrity url that holds characters outside ASCII:
\* U+200B, U+202E, U+2066, Cyrillic be and a, Greek alpha, Cyrillic o, Hebrew
\* alef, Arabic alef, U+FFFF, U+10000 and U+10001 and U+1F600 (as surrogate
\* pairs), a high surrogate and a low surrogate on their own
UnicodeValues ==
    {<<SlashC>> \o u : u \in
        {<<8203>>, <<8238>>, <<8294>>, <<1073>>, <<120, 1073>>, <<1072>>, <<120, 1072, 1072>>,
         <<945, 1086>>, <<1488, 1575>>, <<8203, 120, 1072, 8294>>,
         <<65535>>, <<55296, 56320>>, <<55296, 56321>>, <<55357, 56832>>,
         <<55357, 56832, 120, 55357, 56832>>, <<55296>>, <<56320>>, <<55357, 120>>,
         <<56320, 55296>>, <<1072, 55296, 56321>>}}
UnicodeMaps ==
    {Obj(<<Entry(KImports, Obj(<<Entry(KeyA, JsStr(v))>>))>>) : v \in UnicodeValues}
      \cup {Obj(<<Entry(KScopes, Obj(<<Entry(PrefixP, Obj(<<Entry(KeyA, JsStr(v))>>))>>))>>) :
               v \in UnicodeValues}
      \cup {Obj(<<Entry(KIntegrity, Obj(<<Entry(v, JsStr(Sri256))>>))>>) : v \in UnicodeValues}

\* maps that break rules in several sections at once, their keys listed in
\* either order
BrokenImports == {Null, Obj(<<Entry(<<>>, JsStr(<<>>)), Entry(KeyASlash, JsStr(AddrX))>>)}
BrokenScopes ==
    {Array,
     Obj(<<Entry(<<>>, Obj(<<Entry(KeyASlash, JsStr(AddrX)), Entry(<<>>, Number)>>)),
           Entry(Str(<<"a", ":", "/", "/", ":">>), Obj(<<Entry(KeyA, JsStr(<<>>))>>)),
           Entry(PrefixP, Number)>>),
     Obj(<<Entry(Str(<<"a", ":", "/", "/", ":">>), Obj(<<Entry(<<>>, JsStr(<<>>))>>)),
           Entry(PrefixP, Obj(<<Entry(KeyA, JsStr(AddrX))>>)),
           Entry(<<>>, Obj(<<Entry(KeyASlash, JsStr(Str(<<"a", ":", "/", "/">>)))>>))>>)}
BrokenIntegrity ==
    {Number, Obj(<<Entry(<<>>, JsStr(<<>>)), Entry(AddrX, JsStr(Str(<<"s","h","a","1","-","A">>)))>>)}
FieldOrNone(k, vs) == {<<>>} \cup {<<Entry(k, v)>> : v \in vs}
BrokenMaps ==
    {Obj(u \o i \o s \o g \o w) :
        u \in FieldOrNone(KeyA, {Number}), i \in FieldOrNone(KImports, BrokenImports),
        s \in FieldOrNone(KScopes, BrokenScopes), g \in FieldOrNone(KIntegrity, BrokenIntegrity),
        w \in FieldOrNone(KeyAB, {Null})}
      \cup {Obj(g \o s \o i \o u) :
               u \in FieldOrNone(KeyA, {Number}), i \in FieldOrNone(KImports, BrokenImports),
               s \in FieldOrNone(KScopes, BrokenScopes),
               g \in FieldOrNone(KIntegrity, BrokenIntegrity)}

\* the values a resolver is built from, and the values validate is called with
Inputs == ImportsMaps \cup ScopesMaps \cup OddValues
ValidateInputs ==
    Inputs \cup OddFieldMaps \cup OddEntryMaps \cup IntegrityMaps \cup UnicodeMaps
        \cup BrokenMaps

Specifiers ==
    {KeyA, KeyAB, Str(<<"a", "/", "b", "/", "c">>), Str(<<"b">>), Str(<<"/", "q">>),
     Str(<<".", "/", "r">>), Str(<<".", ".", "/", "r">>), Str(<<"s", ":", "/", "/", "h">>),
     Str(<<"a", ":", "b">>), Str(<<".", ".", "/", ".", ".", "/", "r", "/", ".", "/", "s">>),
     DotDotSlash \o <<BackslashC>> \o Str(<<"e">>)}
Importers ==
    {Undefined, JsStr(<<>>), JsStr(Str(<<"/", "p", "/", "m", ".", "j", "s">>)), JsStr(PrefixPQM),
     JsStr(Str(<<"m">>)), JsStr(Str(<<"/", "m">>)), JsStr(Str(<<"d", "/", "m">>)),
     JsStr(Str(<<"h","t","t","p",":","/","/","h","/","d","/","f",".","j","s">>)),
     JsStr(Str(<<"h","t","t","p",":","/","/","u","@","h",":","8","0","/","d","/">>)),
     JsStr(Str(<<"s",":","/","/","h","/","d","/","f">>)),
     JsStr(Str(<<"h","t","t","p",":","/","/","h",":","9","9","9","9","9","/","f">>))}

-----------------------------------------------------------------------------
(* The resolver's life: validate(input), resolver(input), resolve calls *)

NoCall == [made |-> FALSE, spec |-> <<>>, imp |-> Undefined, out |-> Raised]
NoOutcome == [threw |-> FALSE, vr |-> VRNew(TRUE)]

RsInit ==
    /\ input \in Inputs
    /\ phase = "start"
    /\ rsv = NoResolver
    /\ vres = NoOutcome
    /\ call = NoCall

\* const validationResult = validate(input)
ValidateCall ==
    /\ phase = "start"
    /\ vres' = Validate(input)
    /\ phase' = "validated"
    /\ UNCHANGED <<input, rsv, call>>

\* const imResolver = resolver(input)
Construct ==
    /\ phase = "validated"
    /\ \E made \in {NewResolver(input)} :
           /\ rsv' = made.self
           /\ phase' = IF made.threw THEN "threw" ELSE "built"
    /\ UNCHANGED <<input, vres, call>>

\* imResolver.resolve(specifier, importer)
ResolveCall ==
    /\ phase = "built"
    /\ ~call.made
    /\ \E specifier \in Specifiers, importer \in Importers :
        /\ call' = [made |-> TRUE, spec |-> specifier, imp |-> importer,
                    out |-> Resolve(rsv, specifier, importer)]
        /\ rsv' = AfterResolve(rsv, specifier, importer)
    /\ UNCHANGED <<input, phase, vres>>

\* the caller is done with the value the call returned
Discard ==
    /\ call.made
    /\ call' = NoCall
    /\ UNCHANGED <<input, phase, rsv, vres>>

\* no second resolver
NoPeer == [input |-> Undefined, phase |-> "none", rsv |-> NoResolver, call |-> NoCall]

VRIdle ==
    /\ vr = VRNew(TRUE) /\ vrFlag = TRUE /\ vrLog = <<>> /\ vrHeld = <<>>
    /\ vrWrites = 0 /\ vrOp = "none"
RsIdle ==
    /\ input = Undefined /\ phase = "none" /\ rsv = NoResolver /\ vres = NoOutcome
    /\ call = NoCall

\* the resolver
Init == RsInit /\ VRIdle /\ peer = NoPeer
Next ==
    \/ ValidateCall /\ UNCHANGED <<vrVars, peer>>
    \/ Construct /\ UNCHANGED <<vrVars, peer>>
    \/ ResolveCall /\ UNCHANGED <<vrVars, peer>>
    \/ Discard /\ UNCHANGED <<vrVars, peer>>
Spec == Init /\ [][Next]_vars

\* validate and the constructor, over the wider set of values
InitValidate ==
    /\ input \in ValidateInputs
    /\ phase = "start" /\ rsv = NoResolver /\ vres = NoOutcome /\ call = NoCall
    /\ VRIdle /\ peer = NoPeer
NextValidate ==
    \/ ValidateCall /\ UNCHANGED <<vrVars, peer>>
    \/ Construct /\ UNCHANGED <<vrVars, peer>>
SpecValidate == InitValidate /\ [][NextValidate]_vars

\* the validation outcome on its own
InitVR == VRInit /\ RsIdle /\ peer = NoPeer
NextVR ==
    \/ VRAdd /\ UNCHANGED <<rsVars, peer>>
    \/ VRRead /\ UNCHANGED <<rsVars, peer>>
    \/ VRCallerWrites /\ UNCHANGED <<rsVars, peer>>
SpecVR == InitVR /\ [][NextVR]_vars

-----------------------------------------------------------------------------
(* Properties of the validation outcome (SpecVR) *)

\* C8, as stated: in every reachable state of a validation outcome, valid is
\* true exactly when errors is empty.
C8_AsStated == VRValid(vr) <=> (VRErrors(vr).items = <<>>)

\* C8: a validation outcome constructed with the flag true (the default) has
\* valid true exactly when errors is empty, in every state; one constructed
\* with the flag false has valid false in every state, its errors empty or not.
C8_ValidIffNoErrors ==
    /\ vrFlag => (VRValid(vr) <=> (VRErrors(vr).items = <<>>))
    /\ ~vrFlag => ~VRValid(vr)
C8_Witness ==
    /\ vrFlag
    /\ vrOp = "addError"
    /\ Len(vrLog) = 2
    /\ ~VRValid(vr)
    /\ VRErrors(vr).items # <<>>

\* C9: every read of errors hands out a new array whose items are the recorded
\* errors, and a modification of an array that was handed out changes neither
\* what errors reads nor what valid reads.
C9_DefensiveCopy ==
    [][/\ vrOp' = "errors" =>
            /\ ~vrHeld'[1].alias
            /\ vrHeld'[1].items = vr.errors
       /\ vrOp' = "callerWrite" =>
            /\ VRErrors(vr').items = VRErrors(vr).items
            /\ VRValid(vr') = VRValid(vr)]_vars
C9_Witness ==
    /\ vrOp = "callerWrite"
    /\ vrWrites = MaxWrites
    /\ vrLog # <<>>
    /\ Items(vrHeld[1]) # VRErrors(vr).items
    /\ Intruder \in {Items(vrHeld[1])[i] : i \in 1..Len(Items(vrHeld[1]))}
    /\ VRErrors(vr).items = vrLog

\* C10: after addError was called with e1, ..., en (n >= 1) on a new validation
\* outcome, errors reads exactly e1, ..., en in call order, duplicates and
\* empty strings included, and valid reads false.
C10_ErrorsInCallOrder ==
    Len(vrLog) >= 1 =>
        /\ VRErrors(vr).items = vrLog
        /\ ~VRValid(vr)
C10_Witness ==
    /\ vrLog = <<Str(<<"e">>), Str(<<>>), Str(<<"e">>)>>
    /\ VRErrors(vr).items = vrLog
    /\ ~VRValid(vr)

-----------------------------------------------------------------------------
(* Properties of the resolver (Spec) *)

\* a key matches a specifier, a scope prefix matches an importer
KeyMatches(key, S) == key = S \/ (EndsWith(key, <<SlashC>>) /\ StartsWith(S, key))
HasMatch(es, S) == \E i \in 1..Len(es) : KeyMatches(es[i].k, S)
\* the result of the longest key of the entries es that matches S
LongestMatch(es, S) ==
    LET k == CHOOSE i \in 1..Len(es) :
                /\ KeyMatches(es[i].k, S)
                /\ \A j \in 1..Len(es) : KeyMatches(es[j].k, S) => Len(es[j].k) <= Len(es[i].k)
    IN  IF es[k].k = S THEN es[k].v.s
        ELSE es[k].v.s \o SubSeq(S, Len(es[k].k) + 1, Len(S))
ImportsIn(im) == Get(im, KImports).e
ScopesIn(im) == Get(im, KScopes).e
\* the scopes of im that match the importer I and hold a key matching S
Supplying(im, S, I) ==
    IF I.t # "string" THEN {}
    ELSE {i \in 1..Len(ScopesIn(im)) :
            /\ KeyMatches(ScopesIn(im)[i].k, I.s)
            /\ HasMatch(ScopesIn(im)[i].v.e, S)}
Resolved == phase = "built" /\ Valid(rsv) /\ call.made

\* C1: a resolver built from an import map for which validation records at least
\* one error has valid = false and every resolve call on it raises; a resolver
\* with valid = true never raises.
C1_InvalidResolverRaises ==
    phase = "built" =>
        /\ Len(VRErrors(vres.vr).items) >= 1 =>
                /\ ~Valid(rsv)
                /\ call.made => call.out = Raised
        /\ (Valid(rsv) /\ call.made) => ~call.out.threw
C1_Witness ==
    /\ phase = "built"
    /\ Len(VRErrors(vres.vr).items) >= 1
    /\ ~Valid(rsv)
    /\ call.made
    /\ call.imp.t = "string" /\ call.imp.s # <<>>
    /\ HasMatch(ImportsIn(input), call.spec)
    /\ call.out = Raised

\* C2: on a valid resolver, when no scope supplies a result, a specifier matched
\* by at least one key of imports resolves to the result of the longest matching
\* key: its address when the key is the specifier, else its address followed by
\* the rest of the specifier.
C2_LongestKeyWins ==
    (/\ Resolved
     /\ Supplying(input, call.spec, call.imp) = {}
     /\ HasMatch(ImportsIn(input), call.spec)) =>
        call.out = Returned(JsStr(LongestMatch(ImportsIn(input), call.spec)))
C2_Witness ==
    /\ Resolved
    /\ Supplying(input, call.spec, call.imp) = {}
    /\ Len(ImportsIn(input)) = 2
    /\ ImportsIn(input)[1].k = KeyASlash
    /\ ImportsIn(input)[2].k = KeyABSlash
    /\ call.spec = Str(<<"a", "/", "b", "/", "c">>)
    /\ call.out = Returned(JsStr(ImportsIn(input)[2].v.s \o Str(<<"c">>)))
    /\ call.out # Returned(JsStr(ImportsIn(input)[1].v.s \o Str(<<"b", "/", "c">>)))

\* C3: on a valid resolver called with an importer, the result comes from the
\* scope of the longest prefix among the scopes that match the importer and hold
\* a key matching the specifier; matching scopes without such a key are skipped
\* and global imports are not used.
C3_MostSpecificSupplyingScope ==
    (Resolved /\ Supplying(input, call.spec, call.imp) # {}) =>
        LET i == CHOOSE i \in Supplying(input, call.spec, call.imp) :
                    \A j \in Supplying(input, call.spec, call.imp) :
                        Len(ScopesIn(input)[j].k) <= Len(ScopesIn(input)[i].k)
        IN  call.out = Returned(JsStr(LongestMatch(ScopesIn(input)[i].v.e, call.spec)))
C3_Witness ==
    /\ Resolved
    /\ call.imp = JsStr(PrefixPQM)
    /\ call.spec = Str(<<"a", "/", "b", "/", "c">>)
    /\ Len(ScopesIn(input)) = 2
    /\ ScopesIn(input)[1].k = PrefixP
    /\ ScopesIn(input)[2].k = PrefixPQ
    /\ ~HasMatch(ScopesIn(input)[2].v.e, call.spec)
    /\ HasMatch(ImportsIn(input), call.spec)
    /\ call.out = Returned(JsStr(AddrTSlash \o Str(<<"b", "/", "c">>)))

ScopeVariants ==
    {<<>>,
     <<Entry(KScopes, Obj(<<>>))>>,
     <<Entry(KScopes, Obj(<<Entry(PrefixP, Obj(<<Entry(KeyAB, JsStr(AddrS))>>))>>))>>,
     <<Entry(KScopes, Obj(<<Entry(PrefixPQ, Obj(<<Entry(KeyASlash, JsStr(AddrTSlash))>>)),
                           Entry(PrefixP, Obj(<<Entry(KeyA, JsStr(AddrX))>>))>>))>>}
WithScopes(im, sc) == [im EXCEPT !.e = SelectSeq(im.e, LAMBDA en : en.k # KScopes) \o sc]

\* C5: without an importer the scopes have no influence: a valid import map with
\* the same imports and other scopes gives the same result for the same specifier.
C5_ScopesIgnoredWithoutImporter ==
    (Resolved /\ call.imp = Undefined) =>
        \A sc \in ScopeVariants :
            LET other == NewResolver(WithScopes(input, sc))
            IN  (~other.threw /\ Valid(other.self)) =>
                    Resolve(other.self, call.spec, Undefined) = call.out
C5_Witness ==
    /\ Resolved
    /\ call.imp = Undefined
    /\ \E i \in 1..Len(ScopesIn(input)) : HasMatch(ScopesIn(input)[i].v.e, call.spec)
    /\ ~HasMatch(ImportsIn(input), call.spec)
    /\ call.out = Returned(Undefined)
    /\ \E sc \in ScopeVariants :
            /\ WithScopes(input, sc) # input
            /\ Valid(NewResolver(WithScopes(input, sc)).self)

\* C6: resolve changes no state of the resolver: after any resolve calls its
\* validation outcome, sortedImports and sortedScopes are those of construction,
\* and a call's result is what the same arguments give at any other time.
C6_ResolveChangesNothing ==
    phase = "built" =>
        /\ rsv = NewResolver(input).self
        /\ call.made => call.out = Resolve(NewResolver(input).self, call.spec, call.imp)
C6_Witness ==
    /\ Resolved
    /\ rsv.sortedImports # <<>>
    /\ rsv.sortedScopes # <<>>
    /\ call.out.value.t = "string"
    /\ call.out.value.s # call.spec
    /\ rsv = NewResolver(input).self

\* C7, as stated: validate and the construction of a resolver never raise,
\* whatever the input value.
C7_NeverRaises == ~vres.threw /\ phase # "threw"

-----------------------------------------------------------------------------
(* Properties of validate (SpecValidate) *)

Validated == phase # "start"
TopKeys == {KImports, KScopes, KIntegrity}
\* the errors of the outcome that were made from the template m
ErrorsOf(m) == {i \in 1..Len(vres.vr.errors) : vres.vr.errors[i].m = m}

\* C11, as stated: every import map without the fields imports, scopes and
\* integrity validates to valid = true with no errors.
C11_AsStated ==
    (Validated /\ input.t = "object" /\ \A k \in TopKeys : ~HasKey(input, k)) =>
        (~vres.threw /\ VRValid(vres.vr) /\ VRErrors(vres.vr).items = <<>>)

\* C11: every plain-object import map whose only keys are imports, scopes and
\* integrity, each holding undefined (the empty map included), validates to
\* valid = true with no errors.
C11_NoFieldsIsValid ==
    (/\ Validated
     /\ IsPlainObject(input) = "true"
     /\ \A i \in 1..Len(input.e) : input.e[i].k \in TopKeys /\ input.e[i].v = Undefined) =>
        (~vres.threw /\ VRValid(vres.vr) /\ VRErrors(vres.vr).items = <<>>)
C11_Witness ==
    /\ phase = "validated"
    /\ input = Obj(<<Entry(KScopes, Undefined)>>)
    /\ VRValid(vres.vr)
    /\ VRErrors(vres.vr).items = <<>>

\* C12, as stated: for an input that is null, undefined, a primitive, or an
\* object that is not plain (an array, a class instance, a built-in, a Proxy),
\* validate stops at once and the outcome holds exactly one error.
C12_AsStated ==
    (/\ Validated
     /\ \/ TypeOf(input) # "object"
        \/ input.t \in {"null", "array", "instance", "builtin", "proxy"}) =>
        (~vres.threw /\ Len(VRErrors(vres.vr).items) = 1)

\* C13: for a plain-object import map, the outcome holds exactly one 'Unknown
\* import map key' error for each top-level key other than imports, scopes and
\* integrity, and none for these three, whatever other errors there are.
C13_OneErrorPerUnknownKey ==
    (Validated /\ ~vres.threw /\ IsPlainObject(input) = "true") =>
        /\ \A i \in 1..Len(input.e) :
              Cardinality({j \in ErrorsOf("unknown import map key") :
                              vres.vr.errors[j].a = <<input.e[i].k>>})
                 = IF input.e[i].k \in TopKeys THEN 0 ELSE 1
        /\ Cardinality(ErrorsOf("unknown import map key"))
              = Cardinality({i \in 1..Len(input.e) : input.e[i].k \notin TopKeys})
C13_Witness ==
    /\ phase = "validated"
    /\ Len(input.e) = 3
    /\ HasKey(input, KImports)
    /\ Cardinality(ErrorsOf("unknown import map key")) = 2
    /\ ErrorsOf("address must be a string") # {}
    /\ Len(vres.vr.errors) = 3

\* the entries of a mapping that validate goes through
PlainEntries(v) == IF IsPlainObject(v) = "true" THEN v.e ELSE <<>>
\* specifier and address of the entry are non-empty strings
Checked(en) == en.k # <<>> /\ en.v.t = "string" /\ en.v.s # <<>>
LastOf(str) == str[Len(str)]
\* how many trailing-slash errors the outcome holds for the entry en under the
\* context c and the scope prefix p
SlashErrorsFor(en, c, p) ==
    Cardinality({j \in ErrorsOf("ends with / but address does not") :
                    /\ vres.vr.errors[j].c = c
                    /\ vres.vr.errors[j].a = <<en.k, p, en.v.s>>})
SlashExpected(en) == IF LastOf(en.k) = SlashC /\ LastOf(en.v.s) # SlashC THEN 1 ELSE 0

\* C14: for every entry of imports or of a scope's mapping whose specifier and
\* address are non-empty strings, the outcome holds the trailing-slash error
\* exactly when the specifier ends with '/' and the address does not, and the
\* map is then invalid.
C14_TrailingSlash ==
    (Validated /\ ~vres.threw /\ IsPlainObject(input) = "true") =>
        /\ \A i \in 1..Len(PlainEntries(Get(input, KImports))) :
              LET en == PlainEntries(Get(input, KImports))[i]
              IN  Checked(en) =>
                    /\ SlashErrorsFor(en, "Import", <<>>) = SlashExpected(en)
                    /\ SlashExpected(en) = 1 => ~VRValid(vres.vr)
        /\ \A i \in 1..Len(PlainEntries(Get(input, KScopes))) :
              LET sc == PlainEntries(Get(input, KScopes))[i]
              IN  \A j \in 1..Len(PlainEntries(sc.v)) :
                    LET en == PlainEntries(sc.v)[j]
                    IN  Checked(en) =>
                          /\ SlashErrorsFor(en, "Scoped import", sc.k) = SlashExpected(en)
                          /\ SlashExpected(en) = 1 => ~VRValid(vres.vr)
C14_Witness ==
    /\ phase = "validated"
    /\ Len(PlainEntries(Get(input, KScopes))) = 1
    /\ LET sc == PlainEntries(Get(input, KScopes))[1]
       IN  /\ sc.k = PrefixP
           /\ PlainEntries(sc.v) = <<Entry(KeyASlash, JsStr(AddrX))>>
    /\ Cardinality(ErrorsOf("ends with / but address does not")) = 1
    /\ ~VRValid(vres.vr)

\* the outcome holds an error of template m about the strings a
HasError(m, a) == \E j \in ErrorsOf(m) : vres.vr.errors[j].a = a

\* C15, as stated: for an integrity entry whose url and value are non-empty
\* strings, each of the three checks the entry fails (url parse, Unicode
\* scan of the url, SRI grammar of the value) adds its own error, whether or not
\* the other checks fail.
C15_AsStated ==
    (Validated /\ ~vres.threw /\ IsPlainObject(input) = "true") =>
        \A i \in 1..Len(PlainEntries(Get(input, KIntegrity))) :
            LET en == PlainEntries(Get(input, KIntegrity))[i]
            IN  Checked(en) =>
                  /\ ~(IF IsFullUrl(en.k) THEN ParsesAbsolute(en.k) ELSE ParsesWithHttpBase(en.k))
                        => HasError("integrity URL is not a valid URL", <<en.k>>)
                  /\ ValidateUnicodeSecurity(en.k) # <<>>
                        => HasError("integrity URL unicode issue", <<en.k>>)
                  /\ ~IsValidIntegrityValue(en.v.s)
                        => HasError("is not a valid subresource integrity hash", <<en.v.s, en.k>>)

-----------------------------------------------------------------------------
(* Properties of relative resolution (Spec) *)

\* resolve was called on a valid resolver with an importer string, for a
\* relative specifier that no entry matches
RelativeCall ==
    /\ Resolved
    /\ call.imp.t = "string"
    /\ StartsWith(call.spec, DotSlash) \/ StartsWith(call.spec, DotDotSlash)
    /\ Supplying(input, call.spec, call.imp) = {}
    /\ ~HasMatch(ImportsIn(input), call.spec)
\* the segments acc updated by the segments segs, left to right
RECURSIVE Walk(_, _)
Walk(segs, acc) ==
    IF segs = <<>> THEN acc
    ELSE IF Head(segs) = <<>> \/ Head(segs) = Str(<<".">>) THEN Walk(Tail(segs), acc)
    ELSE IF Head(segs) = Str(<<".", ".">>)
    THEN Walk(Tail(segs), IF acc = <<>> THEN acc ELSE SubSeq(acc, 1, Len(acc) - 1))
    ELSE Walk(Tail(segs), Append(acc, Head(segs)))
\* the non-empty segments of the path up to its last '/'
DirSegments(path) ==
    NonEmpty(SplitOn(SubSeq(path, 1, LastIn(path, {SlashC})), SlashC))

\* C16: a relative specifier resolved against a plain-path importer that
\* contains '/' gives the importer's directory segments updated by the
\* specifier's segments, joined with '/', with a leading '/' exactly when the
\* importer starts with '/'.
C16_RelativeToPath ==
    (/\ RelativeCall
     /\ Includes(call.imp.s, <<SlashC>>)
     /\ ~HasValidOrigin(call.imp.s)) =>
        call.out = Returned(JsStr(
            (IF Head(call.imp.s) = SlashC THEN <<SlashC>> ELSE <<>>)
              \o Join(Walk(SplitOn(call.spec, SlashC), DirSegments(call.imp.s)), <<SlashC>>)))
C16_Witness ==
    /\ RelativeCall
    /\ call.imp = JsStr(Str(<<"/", "m">>))
    /\ call.spec = Str(<<".", ".", "/", ".", ".", "/", "r", "/", ".", "/", "s">>)
    /\ call.out = Returned(JsStr(Str(<<"/", "r", "/", "s">>)))

\* the importer of the call is a URL with an origin: scheme://host..., accepted
\* by the URL parser
UrlImporter ==
    /\ Includes(call.imp.s, <<SlashC>>)
    /\ HasValidOrigin(call.imp.s)
    /\ ParsesAbsolute(call.imp.s)
\* the segments of the importer's path without its final segment (all of them
\* when the path ends in '/')
UrlDirSegments(url) == DirSegments(Pathname(ImporterUrl(url)))

\* C17, as stated: a relative specifier resolved against an importer that is a
\* URL with an origin gives the URL of the same origin whose path is the
\* importer's path without its final segment, updated by the specifier's
\* segments; the result never leaves the importer's origin.
C17_AsStated ==
    (RelativeCall /\ UrlImporter) =>
        call.out = Returned(JsStr(
            Origin(ImporterUrl(call.imp.s)) \o <<SlashC>>
              \o Join(Walk(SplitOn(call.spec, SlashC), UrlDirSegments(call.imp.s)), <<SlashC>>)))

\* the importer of the call has the form scheme://host... of a URL with an
\* origin, and the URL parser rejects it
MalformedUrlImporter ==
    /\ HasValidOrigin(call.imp.s)
    /\ ~ParsesAbsolute(call.imp.s)

\* C18, as stated: on a valid resolver, resolve raises for no specifier and no
\* importer string, and a relative specifier that no entry matches is returned
\* unchanged when the importer contains no '/' or cannot be used as a base (it
\* has the form of a URL and does not parse as one).
C18_AsStated ==
    /\ (Resolved /\ call.imp.t = "string") => ~call.out.threw
    /\ (RelativeCall /\ (~Includes(call.imp.s, <<SlashC>>) \/ MalformedUrlImporter)) =>
            call.out = Returned(JsStr(call.spec))

-----------------------------------------------------------------------------
(* The caller keeps the object it passed: this.#im is that object (SpecShared) *)

\* importMap.imports = { a: '/x' }
WithImports(im, entries) ==
    [im EXCEPT !.e = SelectSeq(im.e, LAMBDA en : en.k # KImports)
                        \o <<Entry(KImports, Obj(entries))>>]
\* what the caller may do to the object after resolver(importMap) returned:
\* delete importMap.scopes, importMap.scopes = {}, importMap.imports = {...};
\* rsv.im is that object, input keeps the value it had when it was passed
CallerChanges ==
    /\ phase = "built"
    /\ rsv.im.t = "object" /\ rsv.im.h = "none"
    /\ \E changed \in {WithScopes(rsv.im, <<>>),
                       WithScopes(rsv.im, <<Entry(KScopes, Obj(<<>>))>>),
                       WithImports(rsv.im, <<Entry(KeyA, JsStr(AddrX))>>)} :
            /\ changed # rsv.im
            /\ rsv' = [rsv EXCEPT !.im = changed]
    /\ UNCHANGED <<input, phase, vres, call>>

NextShared ==
    \/ ValidateCall /\ UNCHANGED <<vrVars, peer>>
    \/ Construct /\ UNCHANGED <<vrVars, peer>>
    \/ ResolveCall /\ UNCHANGED <<vrVars, peer>>
    \/ Discard /\ UNCHANGED <<vrVars, peer>>
    \/ CallerChanges /\ UNCHANGED <<vrVars, peer>>
SpecShared == Init /\ [][NextShared]_vars

\* C19, as stated: once the resolver is built, whatever the caller does to the
\* import-map object it passed, every resolve call returns what the resolver
\* built from the object as it was passed returns, and valid stays what it was.
C19_AsStated ==
    phase = "built" =>
        /\ Valid(rsv) = Valid(NewResolver(input).self)
        /\ call.made => call.out = Resolve(NewResolver(input).self, call.spec, call.imp)

-----------------------------------------------------------------------------
(* Two resolvers of one program (SpecPair) *)

PairInputs ==
    {Obj(<<Entry(KImports, Obj(<<Entry(KeyA, JsStr(AddrX))>>))>>),
     Obj(<<Entry(KImports, Obj(<<Entry(KeyA, JsStr(AddrS))>>)),
           Entry(KScopes, Obj(<<Entry(PrefixP, Obj(<<Entry(KeyAB, JsStr(AddrS))>>))>>))>>),
     Obj(<<Entry(KImports, Null)>>)}

\* const second = resolver(peer.input): every field written is a private field
\* of the new instance (constructor, #prepareResolutionData)
PeerConstructShared ==
    /\ peer.phase = "new"
    /\ \E made \in {NewResolver(peer.input)} :
           /\ peer' = [peer EXCEPT !.rsv = made.self,
                                   !.phase = IF made.threw THEN "threw" ELSE "built"]
           /\ rsv' = IF phase = "built"
                     THEN [rsv EXCEPT !.sortedImports = made.self.sortedImports] ELSE rsv
    /\ UNCHANGED <<vrVars, input, phase, vres, call>>
PeerConstruct ==
    /\ peer.phase = "new"
    /\ \E made \in {NewResolver(peer.input)} :
           peer' = [peer EXCEPT !.rsv = made.self,
                                !.phase = IF made.threw THEN "threw" ELSE "built"]
    /\ UNCHANGED <<vrVars, rsVars>>
\* second.resolve(specifier, importer)
PeerResolve ==
    /\ peer.phase = "built"
    /\ ~peer.call.made
    /\ \E specifier \in Specifiers, importer \in Importers :
           peer' = [peer EXCEPT
                      !.call = [made |-> TRUE, spec |-> specifier, imp |-> importer,
                                out |-> Resolve(peer.rsv, specifier, importer)],
                      !.rsv = AfterResolve(peer.rsv, specifier, importer)]
    /\ UNCHANGED <<vrVars, rsVars>>
PeerDiscard ==
    /\ peer.call.made
    /\ peer' = [peer EXCEPT !.call = NoCall]
    /\ UNCHANGED <<vrVars, rsVars>>

InitPair ==
    /\ input \in PairInputs
    /\ phase = "start" /\ rsv = NoResolver /\ vres = NoOutcome /\ call = NoCall
    /\ VRIdle
    /\ peer \in {[NoPeer EXCEPT !.input = m, !.phase = "new"] : m \in PairInputs}
NextPair ==
    \/ ValidateCall /\ UNCHANGED <<vrVars, peer>>
    \/ Construct /\ UNCHANGED <<vrVars, peer>>
    \/ ResolveCall /\ UNCHANGED <<vrVars, peer>>
    \/ Discard /\ UNCHANGED <<vrVars, peer>>
    \/ PeerConstruct
    \/ PeerResolve
    \/ PeerDiscard
SpecPair == InitPair /\ [][NextPair]_vars

\* C20: resolvers are independent: in every interleaving of the construction
\* and the resolve calls of two resolvers, each resolver's validation outcome
\* and sorted entries are those of its own import map, and each call returns
\* what a resolver built alone from that map returns.
C20_Independent ==
    /\ phase = "built" =>
          /\ rsv = NewResolver(input).self
          /\ call.made => call.out = Resolve(NewResolver(input).self, call.spec, call.imp)
    /\ peer.phase = "built" =>
          /\ peer.rsv = NewResolver(peer.input).self
          /\ peer.call.made =>
                peer.call.out = Resolve(NewResolver(peer.input).self, peer.call.spec, peer.call.imp)
C20_Witness ==
    /\ phase = "built" /\ peer.phase = "built"
    /\ input # peer.input
    /\ Valid(rsv) /\ Valid(peer.rsv)
    /\ call.made /\ peer.call.made
    /\ call.spec = peer.call.spec /\ call.imp = peer.call.imp
    /\ call.out # peer.call.out

-----------------------------------------------------------------------------
(* Properties of the precomputed entries (Spec) *)

\* the keys of seq are in order of non-increasing length
LongestFirst(seq) == \A i, j \in 1..Len(seq) : i < j => Len(seq[i].k) >= Len(seq[j].k)
\* the pairs of seq are the entries of the mapping es (name to string), each once
SamePairs(seq, es) ==
    /\ Len(seq) = Len(es)
    /\ {seq[i] : i \in 1..Len(seq)} = {Pair(es[i].k, es[i].v.s) : i \in 1..Len(es)}

\* C21: an invalid resolver has empty sortedImports and sortedScopes; a valid
\* one has in sortedImports exactly the entries of imports, longest key first,
\* and in sortedScopes exactly one pair per scope, longest prefix first, each
\* holding that scope's entries, longest key first.
C21_PrecomputedEntries ==
    phase = "built" =>
        IF ~Valid(rsv) THEN rsv.sortedImports = <<>> /\ rsv.sortedScopes = <<>>
        ELSE /\ SamePairs(rsv.sortedImports, ImportsIn(input))
             /\ LongestFirst(rsv.sortedImports)
             /\ Len(rsv.sortedScopes) = Len(ScopesIn(input))
             /\ LongestFirst(rsv.sortedScopes)
             /\ \A i \in 1..Len(ScopesIn(input)) :
                    \E j \in 1..Len(rsv.sortedScopes) :
                        /\ rsv.sortedScopes[j].k = ScopesIn(input)[i].k
                        /\ SamePairs(rsv.sortedScopes[j].v, ScopesIn(input)[i].v.e)
                        /\ LongestFirst(rsv.sortedScopes[j].v)
C21_Witness ==
    /\ phase = "built" /\ Valid(rsv)
    /\ Len(rsv.sortedImports) = 2
    /\ rsv.sortedImports[1] = Pair(ImportsIn(input)[2].k, ImportsIn(input)[2].v.s)
    /\ Len(rsv.sortedImports[1].k) > Len(rsv.sortedImports[2].k)

-----------------------------------------------------------------------------
(* Properties of the integrity values (SpecValidate) *)

\* the parts of s between the code units of seps, the empty parts included
RECURSIVE PartsOf(_, _)
PartsOf(s, seps) ==
    IF \A i \in 1..Len(s) : s[i] \notin seps THEN <<s>>
    ELSE LET i == CHOOSE k \in 1..Len(s) : s[k] \in seps /\ \A j \in 1..(k - 1) : s[j] \notin seps
         IN  <<SubSeq(s, 1, i - 1)>> \o PartsOf(SubSeq(s, i + 1, Len(s)), seps)
\* <algorithm>-<body><padding>: algorithm sha256, sha384 or sha512, body a
\* non-empty run of A-Z a-z 0-9 + /, padding any number of '='
Base64Chars == {c \in 43..122 : (c >= 65 /\ c <= 90) \/ (c >= 97 /\ c <= 122)
                                  \/ (c >= 48 /\ c <= 57) \/ c = 43 \/ c = 47}
IsHashToken(t) ==
    /\ Len(t) >= 8
    /\ SubSeq(t, 1, 7) \in {Str(<<"s","h","a","2","5","6","-">>), Str(<<"s","h","a","3","8","4","-">>),
                           Str(<<"s","h","a","5","1","2","-">>)}
    /\ \E k \in 8..Len(t) :
          /\ \A i \in 8..k : t[i] \in Base64Chars
          /\ \A i \in (k + 1)..Len(t) : t[i] = 61
\* one or more tokens, with one or more of the code units of seps between them
TokensSeparatedBy(value, seps) ==
    /\ Head(PartsOf(value, seps)) # <<>>
    /\ PartsOf(value, seps)[Len(PartsOf(value, seps))] # <<>>
    /\ \A i \in 1..Len(PartsOf(value, seps)) :
          PartsOf(value, seps)[i] # <<>> => IsHashToken(PartsOf(value, seps)[i])
\* white space of JavaScript (\s, and what trim removes)
WhiteSpace == {9, 10, 11, 12, 13, 32, 160, 5760, 8232, 8233, 8239, 8287, 12288, 65279}
                 \cup (8192..8202)
\* one or more tokens, white space between them and possibly around them
TokensInWhiteSpace(value) ==
    /\ \E i \in 1..Len(PartsOf(value, WhiteSpace)) : PartsOf(value, WhiteSpace)[i] # <<>>
    /\ \A i \in 1..Len(PartsOf(value, WhiteSpace)) :
          PartsOf(value, WhiteSpace)[i] # <<>> => IsHashToken(PartsOf(value, WhiteSpace)[i])
\* the integrity entries with a non-empty url that parses and a non-empty string value
IntegrityChecked ==
    {i \in 1..Len(PlainEntries(Get(input, KIntegrity))) :
        LET en == PlainEntries(Get(input, KIntegrity))[i]
        IN  /\ Checked(en)
            /\ (IF IsFullUrl(en.k) THEN ParsesAbsolute(en.k) ELSE ParsesWithHttpBase(en.k))}
IntegrityEntry(i) == PlainEntries(Get(input, KIntegrity))[i]
HashErrorFor(en) == HasError("is not a valid subresource integrity hash", <<en.v.s, en.k>>)

-----------------------------------------------------------------------------
(* Properties of the Unicode scan (SpecValidate) *)

\* the scanned values of the input: [v: the value, m: the template of its
\* Unicode errors, c: the context, a: the strings its errors name]
ScannedImports ==
    {[v |-> en.v.s, m |-> "unicode issue", c |-> "Import", a |-> <<en.v.s, <<>>>>] :
        en \in {PlainEntries(Get(input, KImports))[i] :
                    i \in {j \in 1..Len(PlainEntries(Get(input, KImports))) :
                              Checked(PlainEntries(Get(input, KImports))[j])}}}
ScannedInScope(sc) ==
    {[v |-> en.v.s, m |-> "unicode issue", c |-> "Scoped import", a |-> <<en.v.s, sc.k>>] :
        en \in {PlainEntries(sc.v)[i] :
                    i \in {j \in 1..Len(PlainEntries(sc.v)) : Checked(PlainEntries(sc.v)[j])}}}
ScannedScopes ==
    UNION {ScannedInScope(PlainEntries(Get(input, KScopes))[i]) :
              i \in 1..Len(PlainEntries(Get(input, KScopes)))}
ScannedIntegrity ==
    {[v |-> IntegrityEntry(i).k, m |-> "integrity URL unicode issue", c |-> "",
      a |-> <<IntegrityEntry(i).k>>] : i \in IntegrityChecked}
Scanned == ScannedImports \cup ScannedScopes \cup ScannedIntegrity

\* the findings of the rule set on a value
InvisibleCodes ==
    (8203..8207) \cup {8232, 8233} \cup (8234..8238) \cup (8288..8292) \cup (8298..8303) \cup {65279}
BidiCodes == (8234..8238) \cup (8294..8297)
LookAlikes == {1072, 1086, 1088, 1077, 1091, 1093, 959, 945}
CodesOf(v) == {v[i] : i \in 1..Len(v)}
ScriptsOf(v) ==
    {sc \in {"Latin", "Cyrillic", "Greek", "Arabic", "Hebrew"} :
        \E c \in CodesOf(v) :
            \/ sc = "Latin" /\ ((c >= 65 /\ c <= 90) \/ (c >= 97 /\ c <= 122))
            \/ sc = "Cyrillic" /\ c >= 1024 /\ c <= 1279
            \/ sc = "Greek" /\ c >= 880 /\ c <= 1023
            \/ sc = "Arabic" /\ c >= 1536 /\ c <= 1791
            \/ sc = "Hebrew" /\ c >= 1424 /\ c <= 1535}
Findings(v) ==
    (IF CodesOf(v) \cap InvisibleCodes # {} THEN {<<"invisible", 0>>} ELSE {})
      \cup (IF CodesOf(v) \cap BidiCodes # {} THEN {<<"bidi", 0>>} ELSE {})
      \cup (IF Cardinality(ScriptsOf(v)) > 1 THEN {<<"mixed", 0>>} ELSE {})
      \cup {<<"lookalike", c>> : c \in CodesOf(v) \cap LookAlikes}
\* the outcome holds a Unicode error about the scanned value x for the finding f
HasFinding(x, f) ==
    \E j \in ErrorsOf(x.m) :
        /\ vres.vr.errors[j].c = x.c /\ vres.vr.errors[j].a = x.a
        /\ vres.vr.errors[j].u.m = f[1]
        /\ f[1] = "lookalike" => vres.vr.errors[j].u.ch = f[2]

RECURSIVE CodePoints(_)
CodePoints(v) ==
    IF v = <<>> THEN <<>>
    ELSE IF /\ Len(v) >= 2
            /\ v[1] >= 55296 /\ v[1] <= 56319
            /\ v[2] >= 56320 /\ v[2] <= 57343
    THEN <<65536 + (v[1] - 55296) * 1024 + (v[2] - 56320)>> \o CodePoints(SubSeq(v, 3, Len(v)))
    ELSE <<v[1]>> \o CodePoints(Tail(v))
\* how many code points of v lie above the Basic Multilingual Plane
AboveBmp(v) == Cardinality({i \in 1..Len(CodePoints(v)) : CodePoints(v)[i] >= 65536})
\* the 'high Unicode character' errors of the outcome about the scanned value x
HighErrors(x) ==
    {j \in ErrorsOf(x.m) :
        /\ vres.vr.errors[j].c = x.c /\ vres.vr.errors[j].a = x.a
        /\ vres.vr.errors[j].u.m = "high"}

\* C28, as stated: for every scanned address and integrity url the outcome
\* holds one 'high Unicode character' error per code point from U+10000 to
\* U+10FFFF in it, each naming a code point above U+FFFF, and none for a code
\* point at or below U+FFFF.
C28_AsStated ==
    (Validated /\ ~vres.threw /\ IsPlainObject(input) = "true") =>
        \A x \in Scanned :
            /\ Cardinality(HighErrors(x)) = AboveBmp(x.v)
            /\ \A j \in HighErrors(x) : vres.vr.errors[j].u.code >= 65536

-----------------------------------------------------------------------------
(* Properties of the key order (Spec) *)

\* a sequence in the opposite order
Reverse(seq) == [i \in 1..Len(seq) |-> seq[Len(seq) + 1 - i]]
\* the mapping o with its keys listed in the opposite order when flip holds
Relisted(o, flip) == IF flip /\ o.t = "object" THEN [o EXCEPT !.e = Reverse(o.e)] ELSE o
\* the scopes sc, each with its keys relisted
RelistedInside(sc, flip) ==
    IF sc.t # "object" THEN sc
    ELSE [sc EXCEPT !.e = [i \in 1..Len(sc.e) |-> Entry(sc.e[i].k, Relisted(sc.e[i].v, flip))]]
\* the import map im with the same content, its keys listed in another order:
\* the top-level keys, the keys of imports, the scopes, the keys of each scope
Reordered(im, top, imps, scs, inner) ==
    Relisted([im EXCEPT !.e = [i \in 1..Len(im.e) |->
                 IF im.e[i].k = KImports THEN Entry(KImports, Relisted(im.e[i].v, imps))
                 ELSE IF im.e[i].k = KScopes
                 THEN Entry(KScopes, Relisted(RelistedInside(im.e[i].v, inner), scs))
                 ELSE im.e[i]]],
             top)

\* C24: a valid import map and the same content with its keys listed in
\* another order (in imports, in scopes, inside each scope, at the top level)
\* validate to the same outcome, and the resolvers built from them give the
\* same result for every specifier and importer (the top-level keys relisted
\* on their own, the keys of imports, the scopes and the keys inside the scopes
\* relisted in every combination).
C24_KeyOrderIrrelevant ==
    /\ (phase = "built" /\ Valid(rsv) /\ ~call.made) =>
          \A top, imps, scs, inner \in BOOLEAN :
              Validate(Reordered(input, top, imps, scs, inner)) = Ok(rsv.validationResult)
    /\ Resolved =>
          \A top, imps, scs, inner \in BOOLEAN :
              (top => ~(imps \/ scs \/ inner)) =>
                  Resolve(Constructed(Reordered(input, top, imps, scs, inner),
                                      Ok(rsv.validationResult)).self,
                          call.spec, call.imp) = call.out
C24_Witness ==
    /\ Resolved
    /\ Len(ImportsIn(input)) = 2 /\ Len(ScopesIn(input)) = 2
    /\ Len(ScopesIn(input)[1].v.e) = 2
    /\ Len(ScopesIn(input)[1].k) < Len(ScopesIn(input)[2].k)
    /\ Supplying(input, call.spec, call.imp) = {1}
    /\ Reordered(input, FALSE, FALSE, TRUE, TRUE) # input
    /\ NewResolver(Reordered(input, FALSE, FALSE, FALSE, TRUE)).self.sortedScopes = rsv.sortedScopes
    /\ call.out.value.t = "string"

-----------------------------------------------------------------------------
(* Properties of the order of the errors (SpecValidate) *)

ImportsMessages == {"imports must be an object", "imports must be a plain object"}
ScopeMessages ==
    {"scope imports must be an object", "scope imports must be a plain object"}
PrefixMessages == {"empty scope prefix", "scope prefix appears to be a malformed URL"}
ScopesMessages ==
    {"scopes must be an object", "scopes must be a plain object"}
        \cup ScopeMessages \cup PrefixMessages
IntegrityMessages ==
    {"integrity must be an object", "integrity must be a plain object",
     "integrity value must be a string", "integrity URL cannot be empty",
     "integrity value cannot be empty", "integrity URL is not a valid URL",
     "integrity URL unicode issue", "is not a valid subresource integrity hash"}

\* the section an error is about: 1 imports, 2 scopes, 3 integrity, 4 unknown keys
SectionOf(err) ==
    IF err.c = "Import" \/ err.m \in ImportsMessages THEN 1
    ELSE IF err.c = "Scoped import" \/ err.m \in ScopesMessages THEN 2
    ELSE IF err.m \in IntegrityMessages THEN 3
    ELSE IF err.m = "unknown import map key" THEN 4
    ELSE 0

\* the error is about one scope (its prefix, its mapping or one of its entries)
AboutAScope(err) ==
    err.c = "Scoped import" \/ err.m \in ScopeMessages \cup PrefixMessages
\* the prefix of the scope an error is about, as its message names it
ScopeOf(err) ==
    IF err.m = "empty scope prefix" THEN <<>>
    ELSE IF err.m \in ScopeMessages \cup PrefixMessages THEN err.a[1]
    ELSE IF err.m = "ends with / but address does not" THEN err.a[2]
    ELSE err.a[Len(err.a)]

Errors == vres.vr.errors

\* C25: the errors are listed section by section (imports, scopes, integrity,
\* unknown keys); the errors of one scope are contiguous, the errors of its
\* prefix before the errors of its entries.
C25_ErrorsInOrder ==
    (Validated /\ ~vres.threw) =>
        /\ \A i, j \in 1..Len(Errors) :
              i < j => /\ SectionOf(Errors[i]) # 0
                       /\ SectionOf(Errors[i]) <= SectionOf(Errors[j])
        /\ \A i, j, k \in 1..Len(Errors) :
              (/\ i < j /\ j < k
               /\ AboutAScope(Errors[i]) /\ AboutAScope(Errors[k])
               /\ ScopeOf(Errors[i]) = ScopeOf(Errors[k]))
                  => AboutAScope(Errors[j]) /\ ScopeOf(Errors[j]) = ScopeOf(Errors[i])
        /\ \A i, j \in 1..Len(Errors) :
              (/\ i < j
               /\ AboutAScope(Errors[i]) /\ AboutAScope(Errors[j])
               /\ ScopeOf(Errors[i]) = ScopeOf(Errors[j])
               /\ Errors[j].m \in PrefixMessages)
                  => Errors[i].m \in PrefixMessages
C25_Witness ==
    /\ Validated /\ ~vres.threw
    /\ {SectionOf(Errors[i]) : i \in 1..Len(Errors)} = {1, 2, 3, 4}
    /\ input.e[1].k = KIntegrity
    /\ \E i, j, k \in 1..Len(Errors) :
          /\ i < j /\ j < k
          /\ Errors[i].m = "empty scope prefix"
          /\ Errors[j].c = "Scoped import" /\ ScopeOf(Errors[j]) = <<>>
          /\ Errors[k].m = "scope prefix appears to be a malformed URL"
    /\ Cardinality({ScopeOf(Errors[i]) : i \in {j \in 1..Len(Errors) : AboutAScope(Errors[j])}}) = 3

-----------------------------------------------------------------------------
(* Properties of the entries that are not checked further (SpecValidate) *)

\* the errors about the entries of one mapping: those of context c ('Import'
\* or 'Scoped import') and scope prefix p
EntryErrors(c, p) ==
    {j \in 1..Len(Errors) : Errors[j].c = c /\ ScopeOf(Errors[j]) = p}
AddressMessages ==
    {"appears to be a malformed URL", "contains invalid URL characters", "unicode issue"}
\* the errors of the mapping es are those the entries call for: one 'must be
\* a string' error for an address that is no string and no other error that
\* names its specifier; one error for an empty specifier and one for an empty
\* address; an error about an address or a trailing slash only for an entry
\* whose specifier and address are non-empty strings
UncheckedAsStated(es, c, p) ==
    /\ \A i \in 1..Len(es) :
          es[i].v.t # "string" =>
             /\ Cardinality({j \in EntryErrors(c, p) :
                                /\ Errors[j].m = "address must be a string"
                                /\ Errors[j].a = <<es[i].k, p>>}) = 1
             /\ \A j \in EntryErrors(c, p) :
                   /\ Errors[j].m = "address cannot be empty" => Errors[j].a[1] # es[i].k
                   /\ Errors[j].m = "specifier cannot be empty" => es[i].k # <<>>
    /\ Cardinality({j \in EntryErrors(c, p) : Errors[j].m = "address must be a string"})
          = Cardinality({i \in 1..Len(es) : es[i].v.t # "string"})
    /\ Cardinality({j \in EntryErrors(c, p) : Errors[j].m = "specifier cannot be empty"})
          = Cardinality({i \in 1..Len(es) : es[i].v.t = "string" /\ es[i].k = <<>>})
    /\ \A i \in 1..Len(es) :
          es[i].v.t = "string" =>
             Cardinality({j \in EntryErrors(c, p) :
                             /\ Errors[j].m = "address cannot be empty"
                             /\ Errors[j].a = <<es[i].k, p>>})
                = IF es[i].v.s = <<>> THEN 1 ELSE 0
    /\ \A j \in EntryErrors(c, p) :
          /\ Errors[j].m \in AddressMessages =>
                \E i \in 1..Len(es) : Checked(es[i]) /\ es[i].v.s = Errors[j].a[1]
          /\ Errors[j].m = "ends with / but address does not" =>
                \E i \in 1..Len(es) :
                    Checked(es[i]) /\ Errors[j].a = <<es[i].k, p, es[i].v.s>>
          /\ Errors[j].m \in AddressMessages \cup
                {"ends with / but address does not", "address must be a string",
                 "specifier cannot be empty", "address cannot be empty"}

\* C26: in imports and in every scope's mapping, an address that is no string
\* gives exactly one error and nothing else for its entry; an empty specifier
\* and an empty address give one error each; an entry with either of them
\* empty gets no URL, Unicode or trailing-slash error.
C26_UncheckedEntries ==
    (Validated /\ ~vres.threw /\ IsPlainObject(input) = "true") =>
        /\ UncheckedAsStated(PlainEntries(Get(input, KImports)), "Import", <<>>)
        /\ \A i \in 1..Len(PlainEntries(Get(input, KScopes))) :
              UncheckedAsStated(PlainEntries(PlainEntries(Get(input, KScopes))[i].v),
                                "Scoped import", PlainEntries(Get(input, KScopes))[i].k)
C26_Witness ==
    /\ Validated /\ ~vres.threw
    /\ PlainEntries(Get(input, KImports))
          = <<Entry(<<>>, JsStr(<<>>)), Entry(KeyASlash, JsStr(AddrX))>>
    /\ {Errors[j].m : j \in EntryErrors("Import", <<>>)}
          = {"specifier cannot be empty", "address cannot be empty",
             "ends with / but address does not"}
    /\ Cardinality(EntryErrors("Import", <<>>)) = 3
    /\ \E i \in 1..Len(PlainEntries(Get(input, KScopes))) :
          /\ PlainEntries(Get(input, KScopes))[i].k = <<>>
          /\ \E n \in 1..Len(PlainEntries(PlainEntries(Get(input, KScopes))[i].v)) :
                PlainEntries(PlainEntries(Get(input, KScopes))[i].v)[n] = Entry(<<>>, Number)
    /\ {Errors[j].m : j \in EntryErrors("Scoped import", <<>>)}
          = {"ends with / but address does not", "address must be a string"}

-----------------------------------------------------------------------------
(* Properties of the scope with the empty prefix (SpecValidate) *)

\* the outcome holds every error the entries es call for under the scope prefix p
NestedValidated(es, p) ==
    \A i \in 1..Len(es) :
        \A n \in 1..Len(ImportEntryErrors(es[i].k, es[i].v, "Scoped import", p)) :
            \E j \in 1..Len(Errors) :
                Errors[j] = ImportEntryErrors(es[i].k, es[i].v, "Scoped import", p)[n]
\* the scopes that validate goes through
ScopesOf(v) == PlainEntries(Get(v, KScopes))

\* C27, as stated: for every scope whose prefix is the empty string, the
\* outcome holds the empty-scope-prefix error and the errors of the entries
\* nested under that scope.
C27_AsStated ==
    (Validated /\ ~vres.threw /\ IsPlainObject(input) = "true") =>
        \A i \in 1..Len(ScopesOf(input)) :
            ScopesOf(input)[i].k = <<>> =>
                /\ ErrorsOf("empty scope prefix") # {}
                /\ NestedValidated(PlainEntries(ScopesOf(input)[i].v), <<>>)

-----------------------------------------------------------------------------
(* Properties of the exact key (Spec) *)

\* the entries of the mapping that supplies the result for the call: those of
\* the scope of the longest prefix among the supplying scopes, else of imports
SupplyingEntries ==
    IF Supplying(input, call.spec, call.imp) = {} THEN ImportsIn(input)
    ELSE ScopesIn(input)[CHOOSE i \in Supplying(input, call.spec, call.imp) :
                            \A j \in Supplying(input, call.spec, call.imp) :
                                Len(ScopesIn(input)[j].k) <= Len(ScopesIn(input)[i].k)].v.e

\* C29: when the specifier is a key of the mapping that supplies the result,
\* resolve returns that key's address as it is written in the map, whatever
\* prefix keys of the mapping match the specifier and whatever the importer.
C29_ExactKeyUnchanged ==
    Resolved =>
        \A i \in 1..Len(SupplyingEntries) :
            SupplyingEntries[i].k = call.spec => call.out = Returned(SupplyingEntries[i].v)
C29_Witness ==
    /\ Resolved
    /\ call.spec = KeyAB
    /\ call.imp = JsStr(PrefixPQM)
    /\ Supplying(input, call.spec, call.imp) = {}
    /\ ImportsIn(input) = <<Entry(KeyASlash, JsStr(AddrYSlash)), Entry(KeyAB, JsStr(AddrX))>>
    /\ call.out = Returned(JsStr(AddrX))
C29_WitnessScoped ==
    /\ Resolved
    /\ call.spec = KeyAB
    /\ Supplying(input, call.spec, call.imp) # {}
    /\ Len(SupplyingEntries) = 2
    /\ call.out = Returned(JsStr(AddrS))
C29_WitnessRelative ==
    /\ Resolved
    /\ call.spec = KeyDotR
    /\ call.imp = JsStr(Str(<<"/", "p", "/", "m", ".", "j", "s">>))
    /\ \E i \in 1..Len(ImportsIn(input)) : ImportsIn(input)[i].k = KeyDotR
    /\ call.out = Returned(JsStr(AddrDotZ))

-----------------------------------------------------------------------------
(* Properties of valid and errors together (SpecValidate) *)

\* valid is true exactly when errors is empty
Consistent(r) == VRValid(r) <=> (VRErrors(r).items = <<>>)

\* C30: the outcome validate returns, and the validationResult of every
\* resolver, has valid true exactly when its errors are empty; the resolver's
\* valid is its validationResult's valid.
C30_ValidMeansNoErrors ==
    /\ (Validated /\ ~vres.threw) => Consistent(vres.vr)
    /\ phase = "built" =>
          /\ Consistent(rsv.validationResult)
          /\ Valid(rsv) = VRValid(rsv.validationResult)
C30_Witness ==
    /\ phase = "built"
    /\ ~Valid(rsv)
    /\ Len(VRErrors(rsv.validationResult).items) = 2
    /\ rsv.validationResult = vres.vr
C30_WitnessValid ==
    /\ phase = "built"
    /\ Valid(rsv)
    /\ VRErrors(rsv.validationResult).items = <<>>
    /\ Len(ImportsIn(input)) = 2

====
